---- MODULE Spec2Model ----
(***************************************************************************)
(* SisterSafe web client: the network-assurance and verification           *)
(* orchestrators of HomePage.                                              *)
(*                                                                         *)
(* Two HomePage components of the repository are modelled:                 *)
(*   - the negotiating orchestrator, src/apps/web/src/app/page.tsx:        *)
(*     handleVerify calls ensureCeloNetwork, re-reads the chain id and     *)
(*     then dispatches verifyUser (specifications Spec and SpecConc);      *)
(*   - the receipt-tracking orchestrator, src/unnamed/part_001 lines       *)
(*     94-310: handleVerify dispatches verifyUser directly, records the    *)
(*     transaction hash, and an effect refetches isVerified when the       *)
(*     receipt arrives (specification SpecTrack).                          *)
(*                                                                         *)
(* An action is one turn of the JavaScript event loop: the settlement of   *)
(* the promise the handler is suspended on, followed by all the code that  *)
(* runs synchronously up to the next await.  A request is counted when it  *)
(* is issued.  The wallet is an uncontrolled collaborator: it may change   *)
(* chain between any two turns, and answers every request with success or  *)
(* with an error object chosen nondeterministically.                       *)
(***************************************************************************)
EXTENDS Integers, Sequences, FiniteSets, TLC

VARIABLES
    hasEthereum,    \* window.ethereum is present (getEthereum() is not null)
    walletChain,    \* the chain the wallet provider is on (what eth_chainId reports)
    isConnected,    \* useAccount().isConnected
    address,        \* useAccount().address, NoAddress when undefined
    chainId,        \* useChainId(): wagmi's cached chain id
    slots,          \* the handleVerify activations the user may have in flight
    call,           \* page.tsx: per activation, the state of handleVerify/ensureCeloNetwork
    verifying,      \* part_001: useState(false)
    verifyTxHash,   \* part_001: useState(null); NoHash is null
    receipt,        \* part_001: per hash, the state of its receipt query
    isVerifiedData, \* part_001: data of useReadContract(isVerified)
    hv,             \* part_001: handleVerify's position and what it dispatched
    fx,             \* part_001: the refetch effect's dependency memory and what it did
    verifiedOnChain, \* the contract's isVerified mapping, as a set of addresses
    loc,            \* part_001: useGeolocation's state and handleSendLocation's
    fs,             \* the force-switch effect: its dependency memory and requests
    fc              \* FarcasterAutoConnect: its effect's memory, timers and requests

vars == <<hasEthereum, walletChain, isConnected, address, chainId, slots, call,
          verifying, verifyTxHash, receipt, isVerifiedData, hv, fx, verifiedOnChain,
          loc, fs, fc>>

envVars == <<hasEthereum, walletChain, isConnected, address, chainId>>
trackVars == <<verifying, verifyTxHash, receipt, isVerifiedData, hv, fx, verifiedOnChain>>

(***************************************************************************)
(* Configuration and bounds                                                *)
(***************************************************************************)
\* celoSepolia.id, imported from ../lib/wagmi
celoSepoliaId == 11142220

\* const maxAttempts = 10
maxAttempts == 10

\* Activations of handleVerify that may overlap in SpecConc.
MaxInFlight == 2

\* Transaction hashes the wallet hands out in SpecTrack.
MaxTx == 2

ChainIds == {1, 42220, celoSepoliaId}

NoAddress == "undefined"
Addresses == {"0xA", "0xB"}

NoHash == 0
Hashes == 1..MaxTx

\* parseInt's NaN: a value no parse yields (the parse of the magnitude comes
\* first, and magnitudes are below 2^31)
NaN == -2147483647 - 1

(***************************************************************************)
(* Hexadecimal chain ids: eth_chainId answers with a hex string, and the   *)
(* code parses it with parseInt(s, 16).                                    *)
(***************************************************************************)
HexDigits == <<"0", "1", "2", "3", "4", "5", "6", "7",
               "8", "9", "a", "b", "c", "d", "e", "f">>

UpperDigits == <<"0", "1", "2", "3", "4", "5", "6", "7",
                 "8", "9", "A", "B", "C", "D", "E", "F">>

RECURSIVE ToString16(_)
\* Number.prototype.toString(16) for a non-negative integer
ToString16(n) ==
    IF n < 16 THEN <<HexDigits[n + 1]>>
    ELSE Append(ToString16(n \div 16), HexDigits[(n % 16) + 1])

\* `0x${id.toString(16)}`: the hex form used on the provider boundary
ToHexChainId(n) == <<"0", "x">> \o ToString16(n)

DigitValue(ch) ==
    IF \E k \in 1..16 : HexDigits[k] = ch
    THEN (CHOOSE k \in 1..16 : HexDigits[k] = ch) - 1
    ELSE IF \E k \in 1..16 : UpperDigits[k] = ch
    THEN (CHOOSE k \in 1..16 : UpperDigits[k] = ch) - 1
    ELSE NaN

RECURSIVE ParseDigits(_, _, _)
\* the value of the longest prefix of hex digits of s, from position i on
ParseDigits(s, i, acc) ==
    IF i > Len(s) \/ DigitValue(s[i]) = NaN THEN acc
    ELSE ParseDigits(s, i + 1, acc * 16 + DigitValue(s[i]))

\* The characters parseInt skips before the number (StrWhiteSpaceChar of
\* ECMAScript): TAB, VT, FF, SP, NBSP, ZWNBSP and the other space separators
\* (Zs), and the line terminators LF, CR, LS, PS. VT, NBSP, U+1680 and ZWNBSP
\* are written as the characters themselves.
AsciiWhiteSpace == {" ", "\t", "\n", "\r", "\f"}

OtherWhiteSpace == {"", " ", " ", "﻿"}

\* A string of this language cannot hold the characters from U+2000 on: each
\* is written by its code point. U+2000 to U+200A, U+202F, U+205F and U+3000
\* are space separators.
SpaceSeparators ==
    {"U+2000", "U+2001", "U+2002", "U+2003", "U+2004", "U+2005", "U+2006",
     "U+2007", "U+2008", "U+2009", "U+200A", "U+202F", "U+205F", "U+3000"}

\* LS and PS.
LineSeparators == {"U+2028", "U+2029"}

WhiteSpace ==
    AsciiWhiteSpace \cup OtherWhiteSpace \cup SpaceSeparators \cup LineSeparators

RECURSIVE SkipWhiteSpace(_, _)
\* the first position of s from i on that holds no white space
SkipWhiteSpace(s, i) ==
    IF i <= Len(s) /\ s[i] \in WhiteSpace THEN SkipWhiteSpace(s, i + 1) ELSE i

\* parseInt(s, 16): leading white space, an optional sign, an optional 0x
\* prefix, then hex digits up to the first other character; NaN when there
\* are none
ParseInt16(s) ==
    LET a == SkipWhiteSpace(s, 1)
        signed == a <= Len(s) /\ s[a] \in {"+", "-"}
        negative == signed /\ s[a] = "-"
        b == IF signed THEN a + 1 ELSE a
        start == IF Len(s) >= b + 1 /\ s[b] = "0" /\ s[b + 1] \in {"x", "X"}
                 THEN b + 2 ELSE b
    IN IF start > Len(s) \/ DigitValue(s[start]) = NaN THEN NaN
       ELSE IF negative THEN 0 - ParseDigits(s, start, 0)
       ELSE ParseDigits(s, start, 0)

(***************************************************************************)
(* Error objects thrown by the provider: {code, data: {code}, message}.    *)
(* Code 0 stands for an absent (falsy) code.                               *)
(***************************************************************************)
ErrorCodes == {0, 4001, 4902, -32603}
DataCodes == {0, 4902, -32603}
Messages == {"", "same RPC endpoint", "existing network", "chain mismatch"}

\* A message that is not a string and not falsy, such as the number 5 or an
\* object: it has no includes method, and calling it throws a TypeError.
NotAString == "5 (not a string)"

\* A rejection that carries no error object: null or undefined. Its fields
\* read as absent wherever the code reads them with ?.
NoErrorObject == [code |-> 0, dataCode |-> 0, message |-> "", nullish |-> TRUE]

Errors ==
    [code : ErrorCodes, dataCode : DataCodes, message : Messages \cup {NotAString},
     nullish : {FALSE}]
        \cup {NoErrorObject}

\* The TypeError of calling includes on a message that has none.
TypeErrorNotAFunction ==
    [code |-> 0, dataCode |-> 0, message |-> "includes is not a function",
     nullish |-> FALSE]

\* What a catch that goes on to call includes on the message of err
\* (lines 153, 200) throws when it does not handle err: the TypeError of that
\* call, or err itself.
ThrownByIncludes(err) ==
    IF err.message = NotAString THEN TypeErrorNotAFunction ELSE err

\* String.prototype.includes on the messages above
MsgIncludes(m, needle) ==
    CASE needle = "same RPC endpoint" -> m = "same RPC endpoint"
      [] needle = "existing network"  -> m = "existing network"
      [] needle = "network"           -> m = "existing network"
      [] needle = "chain"             -> m = "chain mismatch"
      [] OTHER                        -> FALSE

\* error?.code || error?.data?.code
ErrorCodeOf(err) == IF err.code # 0 THEN err.code ELSE err.dataCode

\* What a provider request may answer: success, or an error object.
Ok == [ok |-> TRUE]
Outcomes == {Ok} \cup {[ok |-> FALSE, err |-> e] : e \in Errors}

(***************************************************************************)
(* The negotiating orchestrator (src/apps/web/src/app/page.tsx)            *)
(***************************************************************************)
AlertNotInstalled == "MetaMask is not installed"
AlertTimedOut == "Please approve the network switch in your wallet and try again."
AlertRejected == "Network switch was rejected. Please switch to Celo Sepolia manually."
AlertSwitchFailed == "Failed to switch to Celo Sepolia. Please switch manually in your wallet."
AlertConnectFirst == "Please connect your wallet first."
AlertSwitchBefore == "Please switch to Celo Sepolia network before verifying."
AlertSent == "Verification transaction sent."
AlertTxChain == "Transaction failed. Please ensure you are on Celo Sepolia network."
AlertVerifyFailed == "Verification failed. Check console for details."

\* No chain id number: nothing was read or dispatched.
NoChain == NaN

Slots == 1..MaxInFlight

\* One activation of handleVerify.  pc names the await the activation is
\* suspended on, by the line of page.tsx that issues the request.
\* The fields from isOnCelo on are observations kept for the properties.
FreshCall ==
    [pc |-> "idle",
     attempts |-> 0,          \* let attempts = 0
     nRead |-> 0,             \* eth_chainId requests issued
     nPoll |-> 0,             \* those of them issued by the polling loop (line 219)
     nSwitch |-> 0,           \* switchChain requests issued
     nAdd |-> 0,              \* wallet_addEthereumChain requests issued
     nWrite |-> 0,            \* verifyUser (writeContract) calls dispatched
     isOnCelo |-> "pending",  \* how ensureCeloNetwork settled: it resolved "true" or
                              \* "false", or it "rejected"
     caught |-> "none",       \* what its outer catch received: an "object", or a
                              \* "nullish" rejection (null, undefined)
     alert |-> "",            \* the alert shown, "" for none
     settledOn |-> NoChain,   \* the wallet's chain when ensureCeloNetwork settled
     already |-> FALSE,       \* currentChainIdNumber === celoSepolia.id at line 178
     seen |-> "none",         \* which of the provider and wagmi's cache were on the
                              \* target when line 178 decided: "both", "provider",
                              \* "cache", "neither"
     firstSwitch |-> "none",  \* the first switchChain: "accepted", "unknown" (4902), "failed"
     addOutcome |-> "none",   \* the add request: "added" (it succeeded, or failed with a
                              \* message that says the chain exists), "other"
     switchAccepted |-> FALSE,\* a switchChain request resolved without error
     readFailed |-> "no",     \* an eth_chainId request failed: "ensure" (lines 175,
                              \* 219), "verify" (line 258)
     dispatchedOn |-> NoChain,\* the wallet's chain when verifyUser was dispatched
     txSent |-> FALSE,        \* writeContract resolved with a hash
     verifyRejected |-> FALSE,\* handleVerify's catch threw: the call rejected
     clickedOn |-> NoChain]   \* wagmi's cached chain id in the render whose Verify Me
                              \* button started it

Pcs == {"idle", "read175", "switch184", "add130", "switch193", "switch204",
        "sleep218", "read219", "read258", "write266", "done"}

\* A chain id taken from wagmi's cached connection state.
currentChainIdNumberCached == chainId

\* parseInt(await ethereum.request({method: 'eth_chainId'}), 16): what the
\* provider reports when the request is answered (lines 175-176, 219-220, 258-259)
currentChainIdNumber == ParseInt16(ToHexChainId(walletChain))

\* A comparison that takes any chain id the provider reports for the target.
IsCeloAnyChain(n) == n # NaN

\* A comparison with the wrong chain id.
IsCeloOffByOne(n) == n = celoSepoliaId + 1

\* newChainIdNumber === celoSepolia.id
IsCelo(n) == n = celoSepoliaId

\* The message of a failure says that the chain is registered already
\* (the two substrings of lines 153-154).
SaysChainExists(err) ==
    \/ MsgIncludes(err.message, "same RPC endpoint")
    \/ MsgIncludes(err.message, "existing network")

\* addCeloNetwork's catch: the failures it swallows (lines 150-155)
AddSwallows(err) ==
    \/ ErrorCodeOf(err) = 4902
    \/ ErrorCodeOf(err) = -32603
    \/ MsgIncludes(err.message, "same RPC endpoint")
    \/ MsgIncludes(err.message, "existing network")

\* ensureCeloNetwork's catch (addError): the failures after which it switches again
\* (lines 198-202)
RetryAfterAddError(err) ==
    \/ ErrorCodeOf(err) = -32603
    \/ MsgIncludes(err.message, "same RPC endpoint")
    \/ MsgIncludes(err.message, "existing network")

\* switchErrorCode === 4902
IsChainUnknown(err) == ErrorCodeOf(err) = 4902

\* A loop that gives up one poll early.
PollAgainFewer(attempts) == attempts < maxAttempts - 1

\* A loop bound that is off by one.
PollAgainInclusive(attempts) == attempts <= maxAttempts

\* while (attempts < maxAttempts)
PollAgain(attempts) == attempts < maxAttempts

\* handleVerify's catch (lines 274-281): error?.message?.includes at line 276
\* throws when the message is not a string, and handleVerify rejects with no
\* alert shown
VerifyCatch(c, err) ==
    IF err.message = NotAString
    THEN [c EXCEPT !.pc = "done", !.verifyRejected = TRUE]
    ELSE [c EXCEPT !.pc = "done",
                   !.alert = IF MsgIncludes(err.message, "chain")
                                \/ MsgIncludes(err.message, "network")
                             THEN AlertTxChain ELSE AlertVerifyFailed]

\* writeContract(wagmiConfig, {functionName: 'verifyUser'}) is called (line 266)
DispatchVerifyUser(c) ==
    [c EXCEPT !.pc = "write266",
              !.nWrite = @ + 1,
              !.dispatchedOn = walletChain]

\* A handleVerify that does not look at what ensureCeloNetwork resolved.
AfterEnsureUnchecked(c) ==
    IF hasEthereum
    THEN [c EXCEPT !.pc = "read258", !.nRead = @ + 1]
    ELSE DispatchVerifyUser(c)

\* handleVerify after `await ensureCeloNetwork()` (lines 251-266)
AfterEnsure(c) ==
    IF c.isOnCelo # "true" THEN [c EXCEPT !.pc = "done"]
    ELSE IF hasEthereum
         THEN [c EXCEPT !.pc = "read258", !.nRead = @ + 1]
         ELSE DispatchVerifyUser(c)

\* ensureCeloNetwork returns `result`, after alert(msg) when msg is not ""
EnsureReturns(c, result, msg) ==
    AfterEnsure([c EXCEPT !.isOnCelo = IF result THEN "true" ELSE "false",
                          !.alert = msg,
                          !.settledOn = IF hasEthereum THEN walletChain ELSE NoChain])

\* The TypeError of reading a property of null or undefined.
TypeErrorOfNull ==
    [code |-> 0, dataCode |-> 0,
     message |-> "Cannot read properties of null (reading 'code')",
     nullish |-> FALSE]

\* ensureCeloNetwork rejects with err: handleVerify's await at line 250 throws
\* into its catch.
EnsureRejects(c, err) ==
    VerifyCatch([c EXCEPT !.isOnCelo = "rejected",
                          !.settledOn = IF hasEthereum THEN walletChain ELSE NoChain],
                err)

\* ensureCeloNetwork's outer catch (lines 231-239): error.code at line 233
\* throws when the rejection carried no object
EnsureCatch(c, err) ==
    IF err.nullish
    THEN EnsureRejects([c EXCEPT !.caught = "nullish"], TypeErrorOfNull)
    ELSE EnsureReturns([c EXCEPT !.caught = "object"], FALSE,
                       IF err.code = 4001 THEN AlertRejected ELSE AlertSwitchFailed)

\* A first read that does not short-circuit: the switch is requested all the same.
AlreadyOnCeloSwitchesAnyway(c) ==
    [c EXCEPT !.already = TRUE, !.pc = "switch184", !.nSwitch = @ + 1]

\* if (currentChainIdNumber === celoSepolia.id) return true (lines 178-180)
AlreadyOnCelo(c) == EnsureReturns([c EXCEPT !.already = TRUE], TRUE, "")

\* A switchChain request was accepted: on to the polling loop (line 218)
SwitchAccepted(c) == [c EXCEPT !.pc = "sleep218", !.switchAccepted = TRUE]

\* A Verify Me button that is enabled on every chain.
VerifyMeEnabledAnyChain == isConnected

\* the Verify Me button: rendered when isConnected,
\* disabled={chainId !== celoSepolia.id}
VerifyMeEnabled == isConnected /\ chainId = celoSepoliaId

\* An ensureCeloNetwork without the getEthereum() guard of lines 167-171.
HandleVerifyBodyNoGuard(connected) ==
    IF ~connected
    THEN [FreshCall EXCEPT !.pc = "done", !.alert = AlertConnectFirst]
    ELSE [FreshCall EXCEPT !.pc = "read175", !.nRead = 1]

\* A handleVerify without the isConnected check of lines 244-247.
HandleVerifyBodyNoConnectCheck(connected) ==
    IF ~hasEthereum
    THEN EnsureReturns(FreshCall, FALSE, AlertNotInstalled)
    ELSE [FreshCall EXCEPT !.pc = "read175", !.nRead = 1]

\* handleVerify up to its first await (lines 242-250 and 166-175)
HandleVerifyBody(connected) ==
    IF ~connected
    THEN [FreshCall EXCEPT !.pc = "done", !.alert = AlertConnectFirst]
    ELSE IF ~hasEthereum
    THEN EnsureReturns(FreshCall, FALSE, AlertNotInstalled)
    ELSE [FreshCall EXCEPT !.pc = "read175", !.nRead = 1]

\* The user presses Verify Me.
HandleVerify(i) ==
    /\ call[i].pc \in {"idle", "done"}
    /\ VerifyMeEnabled
    /\ call' = [call EXCEPT ![i] =
                  [HandleVerifyBody(isConnected) EXCEPT !.clickedOn = chainId]]
    /\ UNCHANGED <<envVars, slots, loc, fs, fc, trackVars>>

\* handleVerify of page.tsx called in whatever state the connection is in: the
\* function itself, without the button in front of it, also while an earlier
\* call is suspended.
InvokeHandleVerify(i) ==
    /\ call[i].pc \in {"idle", "done"}
    /\ call' = [call EXCEPT ![i] = HandleVerifyBody(isConnected)]
    /\ UNCHANGED <<envVars, slots, loc, fs, fc, trackVars>>

(***************************************************************************)
(* handleVerify of the HomePage of src/unnamed/part_000 (lines 98-117): no *)
(* chain negotiation, no in-flight flag, a Verify Me button (line 171)     *)
(* that is never disabled. Its activations use the slots of call, with     *)
(* positions of their own.                                                 *)
(***************************************************************************)
\* The alerts of part_000; each text starts with a mark, written here by its
\* code point.
StubAlertConnectFirst == "U+274C Please connect your wallet first."
StubAlertSent == "U+2705 Verification transaction sent!"
StubAlertVerifyFailed == "U+274C Verification failed. Check console for details."

\* An activation of part_000's handleVerify that has not been called.
StubFreshCall == [FreshCall EXCEPT !.pc = "idle98"]

\* handleVerify of part_000 up to its await (lines 98-105): writeContract for
\* verifyUser is called at once, whatever chain the wallet is on
StubHandleVerifyBody(connected) ==
    IF ~connected
    THEN [StubFreshCall EXCEPT !.pc = "done117", !.alert = StubAlertConnectFirst]
    ELSE [StubFreshCall EXCEPT !.pc = "write105", !.nWrite = 1,
                               !.dispatchedOn = walletChain]

\* The user presses the Verify Me button of part_000 (line 171): it is rendered
\* while isConnected and has no disabled expression, so it can be pressed while
\* earlier activations await writeContract.
StubHandleVerify(i) ==
    /\ call[i].pc \in {"idle98", "done117"}
    /\ isConnected
    /\ call' = [call EXCEPT ![i] = StubHandleVerifyBody(isConnected)]
    /\ UNCHANGED <<envVars, slots, loc, fs, fc, trackVars>>

\* handleVerify of part_000 called in whatever state the connection is in.
StubInvokeHandleVerify(i) ==
    /\ call[i].pc \in {"idle98", "done117"}
    /\ call' = [call EXCEPT ![i] = StubHandleVerifyBody(isConnected)]
    /\ UNCHANGED <<envVars, slots, loc, fs, fc, trackVars>>

\* The answer to part_000's writeContract (lines 105-116): the hash is logged
\* and an alert says so; a rejection, whatever it carries, is logged and
\* answered with the alert of line 115.
StubWriteSettles(i) ==
    /\ call[i].pc = "write105"
    /\ \E o \in Outcomes :
         call' = [call EXCEPT ![i] =
             IF o.ok
             THEN [call[i] EXCEPT !.pc = "done117", !.txSent = TRUE,
                                  !.alert = StubAlertSent]
             ELSE [call[i] EXCEPT !.pc = "done117", !.alert = StubAlertVerifyFailed]]
    /\ UNCHANGED <<envVars, slots, loc, fs, fc, trackVars>>

\* The answer to eth_chainId at line 175, and the code up to the next await.
ReadCurrentChain(i) ==
    /\ call[i].pc = "read175"
    /\ \E o \in Outcomes :
         LET c == [call[i] EXCEPT !.readFailed = IF o.ok THEN @ ELSE "ensure",
                                  !.seen =
                       IF ~o.ok THEN "none"
                       ELSE IF walletChain = celoSepoliaId
                            THEN (IF chainId = celoSepoliaId THEN "both" ELSE "provider")
                            ELSE (IF chainId = celoSepoliaId THEN "cache" ELSE "neither")]
             n == currentChainIdNumber
         IN call' = [call EXCEPT ![i] =
              IF ~o.ok THEN EnsureCatch(c, o.err)
              ELSE IF IsCelo(n)
              THEN AlreadyOnCelo(c)
              ELSE [c EXCEPT !.pc = "switch184", !.nSwitch = @ + 1]]
    /\ UNCHANGED <<envVars, slots, loc, fs, fc, trackVars>>

\* The answer to the first switchChain (line 184).
FirstSwitch(i) ==
    /\ call[i].pc = "switch184"
    /\ \E o \in Outcomes :
         LET c == call[i]
         IN call' = [call EXCEPT ![i] =
              IF o.ok THEN SwitchAccepted([c EXCEPT !.firstSwitch = "accepted"])
              ELSE LET c1 == [c EXCEPT !.firstSwitch =
                                  IF ErrorCodeOf(o.err) = 4902 THEN "unknown" ELSE "failed"]
                   IN IF IsChainUnknown(o.err)
                      THEN \* addCeloNetwork(): getEthereum() again, then the request
                           IF hasEthereum
                           THEN [c1 EXCEPT !.pc = "add130", !.nAdd = @ + 1]
                           ELSE EnsureCatch(c1, [nullish |-> FALSE, code |-> 0, dataCode |-> 0,
                                                 message |-> AlertNotInstalled])
                      ELSE EnsureCatch(c1, o.err)]
    /\ UNCHANGED <<envVars, slots, loc, fs, fc, trackVars>>

\* The answer to wallet_addEthereumChain (line 130).
AddChain(i) ==
    /\ call[i].pc = "add130"
    /\ \E o \in Outcomes :
         LET c == [call[i] EXCEPT !.addOutcome =
                       IF o.ok \/ SaysChainExists(o.err) THEN "added" ELSE "other"]
         IN call' = [call EXCEPT ![i] =
              IF o.ok \/ AddSwallows(o.err)
              THEN [c EXCEPT !.pc = "switch193", !.nSwitch = @ + 1]
              ELSE IF RetryAfterAddError(ThrownByIncludes(o.err))
              THEN [c EXCEPT !.pc = "switch204", !.nSwitch = @ + 1]
              ELSE EnsureCatch(c, ThrownByIncludes(o.err))]
    /\ UNCHANGED <<envVars, slots, loc, fs, fc, trackVars>>

\* The answer to the switchChain that follows the add (line 193); its failure is
\* caught by the same catch (addError) as a failure of addCeloNetwork.
SwitchAfterAdd(i) ==
    /\ call[i].pc = "switch193"
    /\ \E o \in Outcomes :
         LET c == call[i]
         IN call' = [call EXCEPT ![i] =
              IF o.ok THEN SwitchAccepted(c)
              ELSE IF RetryAfterAddError(o.err)
              THEN [c EXCEPT !.pc = "switch204", !.nSwitch = @ + 1]
              ELSE EnsureCatch(c, ThrownByIncludes(o.err))]
    /\ UNCHANGED <<envVars, slots, loc, fs, fc, trackVars>>

\* A catch that requests the switch once more when its own switch fails.
SwitchInCatchRetries(i) ==
    /\ call[i].pc = "switch204"
    /\ \E o \in Outcomes :
         LET c == call[i]
         IN call' = [call EXCEPT ![i] =
              IF o.ok THEN SwitchAccepted(c)
              ELSE IF c.nSwitch < 4 THEN [c EXCEPT !.nSwitch = @ + 1]
              ELSE EnsureCatch(c, o.err)]
    /\ UNCHANGED <<envVars, slots, loc, fs, fc, trackVars>>

\* The answer to the switchChain inside the catch (line 204).
SwitchInCatch(i) ==
    /\ call[i].pc = "switch204"
    /\ \E o \in Outcomes :
         LET c == call[i]
         IN call' = [call EXCEPT ![i] =
              IF o.ok THEN SwitchAccepted(c) ELSE EnsureCatch(c, o.err)]
    /\ UNCHANGED <<envVars, slots, loc, fs, fc, trackVars>>

\* setTimeout(resolve, 500) fires and the poll's eth_chainId is requested (line 219).
PollTimer(i) ==
    /\ call[i].pc = "sleep218"
    /\ call' = [call EXCEPT ![i] = [@ EXCEPT !.pc = "read219", !.nRead = @ + 1,
                                             !.nPoll = @ + 1]]
    /\ UNCHANGED <<envVars, slots, loc, fs, fc, trackVars>>

\* The answer to a poll's eth_chainId (lines 219-230).
PollRead(i) ==
    /\ call[i].pc = "read219"
    /\ \E o \in Outcomes :
         LET c == [call[i] EXCEPT !.readFailed = IF o.ok THEN @ ELSE "ensure"]
             n == currentChainIdNumber
         IN call' = [call EXCEPT ![i] =
              IF ~o.ok THEN EnsureCatch(c, o.err)
              ELSE IF IsCelo(n) THEN EnsureReturns(c, TRUE, "")
              ELSE IF PollAgain(c.attempts + 1)
              THEN [c EXCEPT !.attempts = @ + 1, !.pc = "sleep218"]
              ELSE EnsureReturns([c EXCEPT !.attempts = @ + 1], FALSE, AlertTimedOut)]
    /\ UNCHANGED <<envVars, slots, loc, fs, fc, trackVars>>

\* The answer to handleVerify's own eth_chainId (lines 258-266).
FinalRead(i) ==
    /\ call[i].pc = "read258"
    /\ \E o \in Outcomes :
         LET c == [call[i] EXCEPT !.readFailed = IF o.ok THEN @ ELSE "verify"]
             n == currentChainIdNumber
         IN call' = [call EXCEPT ![i] =
              IF ~o.ok THEN VerifyCatch(c, o.err)
              ELSE IF ~IsCelo(n)
              THEN [c EXCEPT !.pc = "done", !.alert = AlertSwitchBefore]
              ELSE DispatchVerifyUser(c)]
    /\ UNCHANGED <<envVars, slots, loc, fs, fc, trackVars>>

\* The answer to writeContract (lines 266-281).
WriteSettles(i) ==
    /\ call[i].pc = "write266"
    /\ \E o \in Outcomes :
         LET c == call[i]
         IN call' = [call EXCEPT ![i] =
              IF o.ok THEN [c EXCEPT !.pc = "done", !.txSent = TRUE, !.alert = AlertSent]
              ELSE VerifyCatch(c, o.err)]
    /\ UNCHANGED <<envVars, slots, loc, fs, fc, trackVars>>

(***************************************************************************)
(* The wallet and wagmi's connection state                                 *)
(***************************************************************************)
\* The wallet changes chain: the user's doing, or a switch request taking effect.
WalletChangesChain ==
    /\ hasEthereum
    /\ \E c \in ChainIds \ {walletChain} : walletChain' = c
    /\ UNCHANGED <<hasEthereum, isConnected, address, chainId, slots, call, loc, fs, fc, trackVars>>

\* wagmi receives chainChanged and updates the cached chain id.
ChainChanged ==
    /\ isConnected
    /\ chainId # walletChain
    /\ chainId' = walletChain
    /\ UNCHANGED <<hasEthereum, walletChain, isConnected, address, slots, call, loc, fs, fc, trackVars>>

\* The wallet connects an account.
Connect ==
    /\ ~isConnected
    /\ \E a \in Addresses :
         /\ address' = a
         /\ isConnected' = TRUE
         /\ chainId' = walletChain
    /\ UNCHANGED <<hasEthereum, walletChain, slots, call, loc, fs, fc, trackVars>>

\* The wallet disconnects.
Disconnect ==
    /\ isConnected
    /\ isConnected' = FALSE
    /\ address' = NoAddress
    /\ UNCHANGED <<hasEthereum, walletChain, chainId, slots, call, loc, fs, fc, trackVars>>

EnvNext == WalletChangesChain \/ ChainChanged \/ Connect \/ Disconnect

(***************************************************************************)
(* The force-switch effect (page.tsx lines 106-111, part_001 lines         *)
(* 129-134): useEffect(..., [isConnected, chainId, switchChain])           *)
(***************************************************************************)
\* Connect and chain-change events the effect is followed through.
MaxForce == 2

FsFresh ==
    [seenConnected |-> FALSE,  \* isConnected when the effect last ran
     seenChain |-> NoChain,    \* chainId when the effect last ran (none before mount)
     pending |-> 0,            \* switchChain requests of the effect not yet answered
     nSwitch |-> 0,            \* switchChain requests the effect has issued
     nEvents |-> 0,            \* connect / chain-change events that left the wallet
                               \* connected with a cached chain id other than the target
     rejected |-> FALSE,       \* a request of the effect was rejected
     badIssue |-> FALSE]       \* the effect issued a request while disconnected or
                               \* with the cached chain id on the target

\* The effect runs after a render in which one of its dependencies differs from
\* the value it last ran with (switchChain keeps its identity).
ForcePending == <<isConnected, chainId>> # <<fs.seenConnected, fs.seenChain>>

\* React runs a pending effect before it handles the next event.
ForceRendered == ~ForcePending

\* An effect that does not compare the chain id.
ForceSwitchWantedAnyChain == isConnected

\* if (isConnected && chainId !== celoSepolia.id)
ForceSwitchWanted == isConnected /\ chainId # celoSepoliaId

\* The event leaves the wallet connected on a cached chain other than the target.
Mismatch(connected, cached) == connected /\ cached # celoSepoliaId

\* The effect body (lines 107-111).
ForceSwitchEffect ==
    /\ ForcePending
    /\ fs' = IF ForceSwitchWanted
             THEN [fs EXCEPT !.seenConnected = isConnected, !.seenChain = chainId,
                             !.pending = @ + 1, !.nSwitch = @ + 1,
                             !.badIssue = @ \/ ~isConnected \/ chainId = celoSepoliaId]
             ELSE [fs EXCEPT !.seenConnected = isConnected, !.seenChain = chainId]
    /\ UNCHANGED <<envVars, slots, call, loc, fc, trackVars>>

\* A switchChain request of the effect that is rejected is issued once more.
ForceSwitchSettlesRetry ==
    /\ fs.pending > 0
    /\ \/ /\ walletChain' = celoSepoliaId
          /\ fs' = [fs EXCEPT !.pending = @ - 1]
       \/ /\ fs.nSwitch <= MaxForce
          /\ fs' = [fs EXCEPT !.rejected = TRUE, !.nSwitch = @ + 1]
          /\ UNCHANGED walletChain
    /\ UNCHANGED <<hasEthereum, isConnected, address, chainId, slots, call, loc, fc, trackVars>>

\* The wallet answers a switchChain request of the effect: it switches to the
\* target, or the request is rejected; nothing in the component awaits the answer.
ForceSwitchSettles ==
    /\ fs.pending > 0
    /\ \/ /\ walletChain' = celoSepoliaId
          /\ fs' = [fs EXCEPT !.pending = @ - 1]
       \/ /\ fs' = [fs EXCEPT !.pending = @ - 1, !.rejected = TRUE]
          /\ UNCHANGED walletChain
    /\ UNCHANGED <<hasEthereum, isConnected, address, chainId, slots, call, loc, fc, trackVars>>

\* The wallet connects an account (a connect event).
ForceConnect ==
    /\ ForceRendered
    /\ fs.nEvents < MaxForce
    /\ ~isConnected
    /\ \E a \in Addresses : address' = a
    /\ isConnected' = TRUE
    /\ chainId' = walletChain
    /\ fs' = [fs EXCEPT !.nEvents = IF Mismatch(TRUE, walletChain) THEN @ + 1 ELSE @]
    /\ UNCHANGED <<hasEthereum, walletChain, slots, call, loc, fc, trackVars>>

\* wagmi receives chainChanged and updates the cached chain id (a chain-id
\* change event).
ForceChainChanged ==
    /\ ForceRendered
    /\ fs.nEvents < MaxForce
    /\ isConnected
    /\ chainId # walletChain
    /\ chainId' = walletChain
    /\ fs' = [fs EXCEPT !.nEvents = IF Mismatch(TRUE, walletChain) THEN @ + 1 ELSE @]
    /\ UNCHANGED <<hasEthereum, walletChain, isConnected, address, slots, call, loc,
                   fc, trackVars>>

\* The wallet disconnects.
ForceDisconnect ==
    /\ ForceRendered
    /\ isConnected
    /\ isConnected' = FALSE
    /\ address' = NoAddress
    /\ UNCHANGED <<hasEthereum, walletChain, chainId, slots, call, loc, fs, fc, trackVars>>

ForceNext ==
    \/ ForceSwitchEffect
    \/ ForceSwitchSettles
    \/ ForceConnect
    \/ ForceChainChanged
    \/ ForceDisconnect
    \/ (ForceRendered /\ WalletChangesChain)

(***************************************************************************)
(* The receipt-tracking orchestrator (src/unnamed/part_001, lines 94-310)  *)
(***************************************************************************)
\* const isVerified = Boolean(isVerifiedData)
isVerified == isVerifiedData = "true"

\* useWaitForTransactionReceipt({hash: verifyTxHash || undefined}).isLoading
isVerifyingTx == verifyTxHash # NoHash /\ receipt[verifyTxHash] = "pending"

\* useWaitForTransactionReceipt({hash: verifyTxHash || undefined}).isSuccess
isVerifySuccess == verifyTxHash # NoHash /\ receipt[verifyTxHash] = "confirmed"

\* query: {enabled: !!address && isConnected}
ReadEnabled == address # NoAddress /\ isConnected

\* The effect of lines 137-143 runs after a render in which isVerifySuccess
\* differs from the value it last ran with.
EffectPending == fx.seen # isVerifySuccess

\* React runs a pending effect before it handles the next event.
Rendered == ~EffectPending

\* A button that is rendered whatever the flag reads.
VerifyMyAccountEnabledWhenVerified == isConnected /\ ~(verifying \/ isVerifyingTx)

\* A button that stays enabled during an attempt.
VerifyMyAccountEnabledAlways == isConnected /\ ~isVerified

\* the Verify my account button: rendered when isConnected and !isVerified,
\* disabled={verifying || isVerifyingTx}
VerifyMyAccountEnabled == isConnected /\ ~isVerified /\ ~(verifying \/ isVerifyingTx)

\* A refetch for the account that sent the transaction.
RefetchArgsSender == hv.sender

\* The address refetchVerification() reads isVerified for: the query's args
RefetchArgs == address

TrackFresh ==
    /\ verifying = FALSE
    /\ verifyTxHash = NoHash
    /\ receipt = [h \in Hashes |-> "none"]
    /\ isVerifiedData = "undefined"
    /\ hv = [pc |-> "idle",
             nWrite |-> 0,              \* verifyUser calls dispatched by this activation
             pending |-> 0,             \* writeContract calls that have not settled
             dispatchedOn |-> NoChain,  \* the wallet's chain when it was dispatched
             chainReads |-> 0,          \* eth_chainId requests issued by this activation
             nextHash |-> 1,            \* the next hash the wallet hands out
             sender |-> NoAddress,      \* the account the pending call was sent from
             isOnCelo |-> "pending",    \* what ensureCeloNetwork resolved to for it
             outcome |-> "none",        \* how its writeContract settled
             afterRejection |-> FALSE,  \* it was started after a rejected one
             returnedAt276 |-> FALSE]   \* the last call found no connection and returned
    /\ fx = [seen |-> FALSE,            \* isVerifySuccess when the effect last ran
             fetching |-> FALSE,        \* a read of isVerified is in flight
             readArgs |-> NoAddress,    \* the account that read asks about
             refresh |-> "none",        \* the last refetchVerification(): "pending", "ok",
                                        \* "failed", "abandoned" (the query's key changed)
             nRefetch |-> [h \in Hashes |-> 0],  \* refetchVerification() calls per receipt
             refetchedFor |-> [h \in Hashes |-> NoAddress],
             confirmedFor |-> [h \in Hashes |-> NoAddress]]

\* No account is verified when the page loads.
TrackInit ==
    /\ TrackFresh
    /\ verifiedOnChain = {}

negVars == <<slots, call, loc, fs, fc>>

\* The user presses Verify my account (lines 274-286).
TrackHandleVerify ==
    /\ Rendered
    /\ VerifyMyAccountEnabled
    /\ hv.pc = "idle"
    /\ IF ~isConnected
       THEN UNCHANGED <<verifying, hv>>
       ELSE /\ verifying' = TRUE
            /\ hv' = [hv EXCEPT !.pc = "write281", !.nWrite = 1, !.chainReads = 0,
                                !.pending = @ + 1,
                                !.dispatchedOn = walletChain, !.sender = address,
                                !.isOnCelo = "pending", !.outcome = "none",
                                !.afterRejection = (hv.outcome = "rejected")]
    /\ UNCHANGED <<envVars, negVars, verifyTxHash, receipt, isVerifiedData, fx,
                   verifiedOnChain>>

\* Calls of part_001's handleVerify that await writeContract at once in
\* SpecInvoke.
MaxTrackInFlight == 2

\* handleVerify of part_001 called in whatever state the connection is in
\* (lines 274-286): the function itself, without the button in front of it,
\* also while earlier calls await writeContract.
TrackInvokeHandleVerify ==
    /\ Rendered
    /\ isConnected => hv.pending < MaxTrackInFlight
    /\ IF ~isConnected
       THEN /\ hv' = [hv EXCEPT !.returnedAt276 = TRUE]
            /\ UNCHANGED verifying
       ELSE /\ verifying' = TRUE
            /\ hv' = [hv EXCEPT !.pc = "write281", !.nWrite = 1, !.chainReads = 0,
                                !.pending = @ + 1,
                                !.dispatchedOn = walletChain, !.sender = address,
                                !.isOnCelo = "pending", !.outcome = "none",
                                !.afterRejection = (hv.outcome = "rejected"),
                                !.returnedAt276 = FALSE]
    /\ UNCHANGED <<envVars, negVars, verifyTxHash, receipt, isVerifiedData, fx,
                   verifiedOnChain>>

\* A handleVerify whose catch leaves the in-flight flag up.
TrackWriteSettlesKeepsFlag ==
    /\ Rendered
    /\ hv.pc = "write281"
    /\ \/ /\ hv.nextHash <= MaxTx
          /\ verifyTxHash' = hv.nextHash
          /\ receipt' = [receipt EXCEPT ![hv.nextHash] = "pending"]
          /\ hv' = [hv EXCEPT !.pc = IF hv.pending > 1 THEN "write281" ELSE "idle",
                              !.pending = @ - 1, !.nextHash = @ + 1,
                              !.outcome = "accepted"]
          /\ UNCHANGED verifying
       \/ /\ hv' = [hv EXCEPT !.pc = IF hv.pending > 1 THEN "write281" ELSE "idle",
                              !.pending = @ - 1, !.outcome = "rejected"]
          /\ UNCHANGED <<verifying, verifyTxHash, receipt>>
    /\ UNCHANGED <<envVars, negVars, isVerifiedData, fx, verifiedOnChain>>

\* A handleVerify whose catch dispatches verifyUser again.
TrackWriteSettlesRetry ==
    /\ Rendered
    /\ hv.pc = "write281"
    /\ \/ /\ hv.nextHash <= MaxTx
          /\ verifyTxHash' = hv.nextHash
          /\ receipt' = [receipt EXCEPT ![hv.nextHash] = "pending"]
          /\ hv' = [hv EXCEPT !.pc = IF hv.pending > 1 THEN "write281" ELSE "idle",
                              !.pending = @ - 1, !.nextHash = @ + 1,
                              !.outcome = "accepted"]
          /\ UNCHANGED verifying
       \/ /\ hv.nWrite < 2
          /\ hv' = [hv EXCEPT !.nWrite = @ + 1, !.outcome = "rejected"]
          /\ UNCHANGED <<verifying, verifyTxHash, receipt>>
    /\ UNCHANGED <<envVars, negVars, isVerifiedData, fx, verifiedOnChain>>

\* The answer to writeContract (lines 281-291).
TrackWriteSettles ==
    /\ Rendered
    /\ hv.pc = "write281"
    /\ \/ /\ hv.nextHash <= MaxTx
          /\ verifyTxHash' = hv.nextHash
          /\ receipt' = [receipt EXCEPT ![hv.nextHash] = "pending"]
          /\ hv' = [hv EXCEPT !.pc = IF hv.pending > 1 THEN "write281" ELSE "idle",
                              !.pending = @ - 1, !.nextHash = @ + 1,
                              !.outcome = "accepted"]
          /\ UNCHANGED verifying
       \/ /\ verifying' = FALSE
          /\ hv' = [hv EXCEPT !.pc = IF hv.pending > 1 THEN "write281" ELSE "idle",
                              !.pending = @ - 1, !.outcome = "rejected"]
          /\ UNCHANGED <<verifyTxHash, receipt>>
    /\ UNCHANGED <<envVars, negVars, isVerifiedData, fx, verifiedOnChain>>

\* The watched transaction is mined: verifyUser marks its sender verified.
ReceiptConfirmed ==
    /\ Rendered
    /\ isVerifyingTx
    /\ receipt' = [receipt EXCEPT ![verifyTxHash] = "confirmed"]
    /\ verifiedOnChain' = verifiedOnChain \cup {hv.sender}
    /\ fx' = [fx EXCEPT !.confirmedFor[verifyTxHash] = address]
    /\ UNCHANGED <<envVars, negVars, verifying, verifyTxHash, isVerifiedData, hv>>

\* The receipt query of the watched transaction fails.
ReceiptFailed ==
    /\ Rendered
    /\ isVerifyingTx
    /\ receipt' = [receipt EXCEPT ![verifyTxHash] = "failed"]
    /\ UNCHANGED <<envVars, negVars, verifying, verifyTxHash, isVerifiedData, hv, fx,
                   verifiedOnChain>>

\* An effect that resets the in-flight flag and goes on watching the handle.
RefetchEffectKeepsHandle ==
    /\ EffectPending
    /\ IF isVerifySuccess
       THEN /\ fx' = [fx EXCEPT !.seen = TRUE,
                                !.fetching = TRUE,
                                !.readArgs = RefetchArgs,
                                !.refresh = "pending",
                                !.nRefetch[verifyTxHash] = @ + 1,
                                !.refetchedFor[verifyTxHash] = RefetchArgs]
            /\ verifying' = FALSE
            /\ UNCHANGED verifyTxHash
       ELSE /\ fx' = [fx EXCEPT !.seen = FALSE]
            /\ UNCHANGED <<verifying, verifyTxHash>>
    /\ UNCHANGED <<envVars, negVars, receipt, isVerifiedData, hv, verifiedOnChain>>

\* An effect that leaves the in-flight flag to the refresh.
RefetchEffectKeepsFlag ==
    /\ EffectPending
    /\ IF isVerifySuccess
       THEN /\ fx' = [fx EXCEPT !.seen = TRUE,
                                !.fetching = TRUE,
                                !.readArgs = RefetchArgs,
                                !.refresh = "pending",
                                !.nRefetch[verifyTxHash] = @ + 1,
                                !.refetchedFor[verifyTxHash] = RefetchArgs]
            /\ verifyTxHash' = NoHash
            /\ UNCHANGED verifying
       ELSE /\ fx' = [fx EXCEPT !.seen = FALSE]
            /\ UNCHANGED <<verifying, verifyTxHash>>
    /\ UNCHANGED <<envVars, negVars, receipt, isVerifiedData, hv, verifiedOnChain>>

\* The effect of lines 137-143.
RefetchEffect ==
    /\ EffectPending
    /\ IF isVerifySuccess
       THEN /\ fx' = [fx EXCEPT !.seen = TRUE,
                                !.fetching = TRUE,
                                !.readArgs = RefetchArgs,
                                !.refresh = "pending",
                                !.nRefetch[verifyTxHash] = @ + 1,
                                !.refetchedFor[verifyTxHash] = RefetchArgs]
            /\ verifying' = FALSE
            /\ verifyTxHash' = NoHash
       ELSE /\ fx' = [fx EXCEPT !.seen = FALSE]
            /\ UNCHANGED <<verifying, verifyTxHash>>
    /\ UNCHANGED <<envVars, negVars, receipt, isVerifiedData, hv, verifiedOnChain>>

\* A read of isVerified settles: with the contract's answer for the account in
\* its args, or with an error that leaves the data as it was. A read without
\* args (a refetch while no address is known) has no call to make and fails.
ReadSettles ==
    /\ Rendered
    /\ fx.fetching
    /\ \/ /\ fx.readArgs # NoAddress
          /\ isVerifiedData' = IF fx.readArgs \in verifiedOnChain THEN "true" ELSE "false"
          /\ fx' = [fx EXCEPT !.fetching = FALSE, !.readArgs = NoAddress,
                              !.refresh = IF @ = "pending" THEN "ok" ELSE @]
       \/ /\ UNCHANGED isVerifiedData
          /\ fx' = [fx EXCEPT !.fetching = FALSE, !.readArgs = NoAddress,
                              !.refresh = IF @ = "pending" THEN "failed" ELSE @]
    /\ UNCHANGED <<envVars, negVars, verifying, verifyTxHash, receipt, hv,
                   verifiedOnChain>>

\* What useReadContract returns as data when its args or its enabled flag
\* change (lines 107-115 pass them, nothing more): the hook drops what it
\* held, or goes on returning it.
DataAfterChange == {"undefined", isVerifiedData}

\* The wallet connects an account: the read of isVerified is enabled and fetches.
TrackConnect ==
    /\ Rendered
    /\ ~isConnected
    /\ \E a \in Addresses : address' = a
    /\ isConnected' = TRUE
    /\ chainId' = walletChain
    /\ isVerifiedData' \in DataAfterChange
    /\ fx' = [fx EXCEPT !.fetching = TRUE, !.readArgs = address',
                        !.refresh = IF @ = "pending" THEN "abandoned" ELSE @]
    /\ UNCHANGED <<hasEthereum, walletChain, negVars, verifying, verifyTxHash, receipt,
                   hv, verifiedOnChain>>

\* The wallet switches to another account: the read's key changes and it fetches.
AccountsChanged ==
    /\ Rendered
    /\ isConnected
    /\ \E a \in Addresses \ {address} : address' = a
    /\ isVerifiedData' \in DataAfterChange
    /\ fx' = [fx EXCEPT !.fetching = TRUE, !.readArgs = address',
                        !.refresh = IF @ = "pending" THEN "abandoned" ELSE @]
    /\ UNCHANGED <<hasEthereum, walletChain, isConnected, chainId, negVars, verifying,
                   verifyTxHash, receipt, hv, verifiedOnChain>>

\* The wallet disconnects: useAccount reports isConnected false, with the
\* address gone or still there, and the read is disabled.
TrackDisconnect ==
    /\ Rendered
    /\ isConnected
    /\ isConnected' = FALSE
    /\ address' \in {NoAddress, address}
    /\ isVerifiedData' \in DataAfterChange
    /\ fx' = [fx EXCEPT !.fetching = FALSE, !.readArgs = NoAddress,
                        !.refresh = IF @ = "pending" THEN "abandoned" ELSE @]
    /\ UNCHANGED <<hasEthereum, walletChain, chainId, negVars, verifying, verifyTxHash,
                   receipt, hv, verifiedOnChain>>

TrackNext ==
    \/ TrackHandleVerify
    \/ TrackWriteSettles
    \/ ReceiptConfirmed
    \/ ReceiptFailed
    \/ RefetchEffect
    \/ ReadSettles
    \/ TrackConnect
    \/ AccountsChanged
    \/ TrackDisconnect
    \/ (Rendered /\ WalletChangesChain)
    \/ (Rendered /\ ChainChanged)

(***************************************************************************)
(* The location section of the receipt-tracking HomePage:                  *)
(* useGeolocation (part_001 lines 35-78), handleSendLocation (294-310) and *)
(* the buttons of lines 456-485.                                           *)
(***************************************************************************)
appVars == <<envVars, slots, call, fs, fc, trackVars>>

\* getCurrentPosition requests the browser may have outstanding at once.
MaxGeoPending == 2

NoGeohash == "null"

\* Lines 149-152: the 5-character geohash of the position, null without one.
geohash5 == IF loc.status = "success" THEN "geohash" ELSE NoGeohash

\* An Alert button that does not look at the verified flag.
AlertEnabledUnverified ==
    ~(loc.status # "success" \/ geohash5 = NoGeohash \/ loc.sendingLocation)

\* Line 470: the Alert my friends button is not disabled.
AlertEnabled ==
    ~(loc.status # "success" \/ geohash5 = NoGeohash \/ loc.sendingLocation
        \/ ~isVerified)

\* page.tsx line 483: the Send location button is not disabled.
SendLocationEnabled == ~(loc.status # "success" \/ geohash5 = NoGeohash)

NoCoords == "none"

\* The positions the browser may report.
Positions == {"here", "there"}

\* The location section before its mount effect, in a browser that has the
\* geolocation interface (s) or lacks it.
LocFresh(s) ==
    [mounted |-> FALSE,          \* the effect of lines 73-75 has run
     supported |-> s,            \* 'geolocation' in navigator
     status |-> "idle",          \* state.status
     pending |-> 0,              \* getCurrentPosition requests outstanding
     sendingLocation |-> FALSE,  \* useState(false), line 97
     sent |-> FALSE,             \* sendLocationToChain has been called
     sentUnverified |-> FALSE,   \* ... while isVerified was false
     nSending |-> 0,             \* handleSendLocation activations inside their try
     lastSend |-> "none",        \* how the last one left it: "sent", "threw"
     coords |-> NoCoords,        \* state.coords, NoCoords in a state without them
     overlapped |-> FALSE]       \* requestLocation ran while a request was outstanding

LocInit == \E s \in BOOLEAN : loc = LocFresh(s)

\* requestLocation (lines 38-71).
RequestLocationBody(l) ==
    IF ~l.supported
    THEN [l EXCEPT !.status = "error", !.coords = NoCoords]
    ELSE [l EXCEPT !.status = "loading", !.coords = NoCoords, !.pending = @ + 1,
                   !.overlapped = @ \/ l.pending > 0]

\* The mount effect of lines 73-75.
MountEffect ==
    /\ ~loc.mounted
    /\ loc' = [RequestLocationBody(loc) EXCEPT !.mounted = TRUE]
    /\ UNCHANGED appVars

\* The user presses Update location (line 460).
RequestLocation ==
    /\ loc.mounted
    /\ loc.supported => loc.pending < MaxGeoPending
    /\ loc' = RequestLocationBody(loc)
    /\ UNCHANGED appVars

\* The success callback of lines 49-57.
PositionSuccess ==
    /\ loc.pending > 0
    /\ \E p \in Positions :
         loc' = [loc EXCEPT !.status = "success", !.coords = p, !.pending = @ - 1]
    /\ UNCHANGED appVars

\* The error callback of lines 58-63.
PositionError ==
    /\ loc.pending > 0
    /\ loc' = [loc EXCEPT !.status = "error", !.coords = NoCoords, !.pending = @ - 1]
    /\ UNCHANGED appVars

\* handleSendLocation activations that may be inside their try at once.
MaxSending == 2

\* handleSendLocation up to its first await (lines 294-299), applied to the
\* state of the location section.
HandleSendLocationBody(l) ==
    IF l.status = "success" /\ geohash5 # NoGeohash
    THEN [l EXCEPT !.sendingLocation = TRUE,
                   !.sent = TRUE,
                   !.sentUnverified = @ \/ ~isVerified,
                   !.nSending = @ + 1]
    ELSE l

\* The user presses Alert my friends: handleSendLocation up to the 1.5 s wait
\* (lines 294-302).
HandleSendLocation ==
    /\ loc.mounted
    /\ Rendered
    /\ AlertEnabled
    /\ loc.nSending < MaxSending
    /\ loc' = HandleSendLocationBody(loc)
    /\ UNCHANGED appVars

\* The 1.5 s wait ends: the finally block of lines 306-308.
SendTimerFires ==
    /\ loc.nSending > 0
    /\ loc' = [loc EXCEPT !.sendingLocation = FALSE,
                          !.nSending = @ - 1,
                          !.lastSend = "sent"]
    /\ UNCHANGED appVars

\* A send whose catch is its last block: the flag is reset on success only.
SendThrowsKeepsFlag ==
    /\ loc.nSending > 0
    /\ loc' = [loc EXCEPT !.nSending = @ - 1,
                          !.lastSend = "threw"]
    /\ UNCHANGED appVars

\* An awaited call of the try block throws: the catch of lines 304-305 logs
\* it and the finally block of lines 306-308 runs.
SendThrows ==
    /\ loc.nSending > 0
    /\ loc' = [loc EXCEPT !.sendingLocation = FALSE,
                          !.nSending = @ - 1,
                          !.lastSend = "threw"]
    /\ UNCHANGED appVars

\* The user presses Send location (stub) (page.tsx lines 481-491; the same
\* button at part_001 lines 712-720): the handler tests the state and the
\* geohash, nothing else, and calls sendLocationToChain, which logs the
\* position (page.tsx lines 78-89).
SendLocationOnClick ==
    /\ loc.mounted
    /\ SendLocationEnabled
    /\ loc' = IF loc.status = "success" /\ geohash5 # NoGeohash
              THEN [loc EXCEPT !.sent = TRUE,
                               !.sentUnverified = @ \/ ~isVerified]
              ELSE loc
    /\ UNCHANGED appVars

\* The location section of page.tsx: useGeolocation (lines 33-76) and the
\* Send location button.
PageLocNext ==
    \/ MountEffect
    \/ RequestLocation
    \/ PositionSuccess
    \/ PositionError
    \/ SendLocationOnClick

LocNext ==
    \/ MountEffect
    \/ RequestLocation
    \/ PositionSuccess
    \/ PositionError
    \/ HandleSendLocation
    \/ SendTimerFires
    \/ SendThrows

(***************************************************************************)
(* FarcasterAutoConnect (components/FarcasterAutoConnect.tsx, lines 7-28)  *)
(***************************************************************************)
\* setTimeout(..., 500)
Delay == 500

\* The step by which time advances.
TickLen == 250

\* Runs of the effect of lines 11-25 that are followed.
MaxFcRuns == 4

Min(a, b) == IF a < b THEN a ELSE b

\* The component before it is mounted; f is what isInFarcaster() answers in
\* this session.
FcFresh(f) ==
    [mounted |-> FALSE,
     inFarcaster |-> f,
     seen |-> "none",       \* isConnected when the effect last ran
     runs |-> 0,            \* runs of the effect so far
     timers |-> {},         \* the timers set and neither fired nor cleared: the
                            \* run that set each and the time since
     connecting |-> 0,      \* connect requests outstanding
     nConnect |-> 0,        \* connect requests issued
     nCancelled |-> 0,      \* timers cleared before they fired
     issuedBy |-> 0,        \* the run that set the timer of the last request
     issuedAfter |-> 0]     \* the time that timer had waited

\* useAccount().isConnected, as the effect's dependency
ConnState == IF isConnected THEN "connected" ELSE "disconnected"

\* The effect runs after a render in which isConnected differs from the value
\* it last ran with, and after the first render.
FcPending == fc.mounted /\ fc.seen # ConnState

\* React runs a pending effect before it handles the next event.
FcRendered == ~FcPending

\* An effect that returns no cleanup.
FcCleanupKeepsTimer(f) == f

\* return () => clearTimeout(timer): the cleanup of the last run, if that run
\* set a timer (line 23)
FcCleanup(f) ==
    LET mine == {t \in f.timers : t.run = f.runs}
    IN [f EXCEPT !.timers = @ \ mine,
                 !.nCancelled = @ + Cardinality(mine)]

\* One run of the effect: the cleanup of the run before it, then lines 13-24.
FcEffectRun(f, connected) ==
    LET g == [FcCleanup(f) EXCEPT !.runs = @ + 1,
                                  !.seen = IF connected THEN "connected"
                                           ELSE "disconnected"]
    IN IF g.inFarcaster /\ ~connected
       THEN [g EXCEPT !.timers = @ \cup {[run |-> g.runs, elapsed |-> 0]}]
       ELSE g

fcRest == <<slots, call, loc, fs, trackVars>>

\* The layout mounts the component.
FcMount ==
    /\ ~fc.mounted
    /\ fc.runs < MaxFcRuns
    /\ fc' = [fc EXCEPT !.mounted = TRUE]
    /\ UNCHANGED <<envVars, fcRest>>

\* The effect of lines 11-25.
FcEffect ==
    /\ FcPending
    /\ fc' = FcEffectRun(fc, isConnected)
    /\ UNCHANGED <<envVars, fcRest>>

\* useConnect() hands out another connect function: the effect runs again.
FcConnectFnChanges ==
    /\ fc.mounted
    /\ FcRendered
    /\ fc.runs < MaxFcRuns
    /\ fc' = FcEffectRun(fc, isConnected)
    /\ UNCHANGED <<envVars, fcRest>>

\* The component is torn down: React runs the last cleanup.
FcUnmount ==
    /\ fc.mounted
    /\ FcRendered
    /\ fc' = [FcCleanup(fc) EXCEPT !.mounted = FALSE, !.seen = "none"]
    /\ UNCHANGED <<envVars, fcRest>>

\* Time passes for the timers that are set.
FcTick ==
    /\ FcRendered
    /\ \E t \in fc.timers : t.elapsed < Delay
    /\ fc' = [fc EXCEPT !.timers =
                 {[t EXCEPT !.elapsed = Min(@ + TickLen, Delay)] : t \in @}]
    /\ UNCHANGED <<envVars, fcRest>>

\* A timer's delay has elapsed: its callback calls connect (lines 15-21).
FcTimerFires ==
    /\ FcRendered
    /\ \E t \in fc.timers :
         /\ t.elapsed >= Delay
         /\ fc' = [fc EXCEPT !.timers = @ \ {t},
                             !.connecting = @ + 1,
                             !.nConnect = @ + 1,
                             !.issuedBy = t.run,
                             !.issuedAfter = t.elapsed]
    /\ UNCHANGED <<envVars, fcRest>>

\* One of the outstanding connect requests settles: the connector connects an
\* account, or the request fails (also when the wallet is connected by then)
\* and changes nothing.
FcConnectSettles ==
    /\ FcRendered
    /\ fc.connecting > 0
    /\ fc' = [fc EXCEPT !.connecting = @ - 1]
    /\ \/ /\ ~isConnected
          /\ \E a \in Addresses : address' = a
          /\ isConnected' = TRUE
          /\ chainId' = walletChain
          /\ UNCHANGED <<hasEthereum, walletChain>>
       \/ UNCHANGED envVars
    /\ UNCHANGED fcRest

FarcasterNext ==
    \/ FcMount
    \/ FcEffect
    \/ FcConnectFnChanges
    \/ FcUnmount
    \/ FcTick
    \/ FcTimerFires
    \/ FcConnectSettles
    \/ (FcRendered /\ fc.runs < MaxFcRuns /\ Connect)
    \/ (FcRendered /\ fc.runs < MaxFcRuns /\ Disconnect)

EnvInit ==
    /\ hasEthereum \in BOOLEAN
    /\ walletChain \in ChainIds
    /\ isConnected = FALSE
    /\ address = NoAddress
    /\ chainId \in ChainIds

Init ==
    /\ EnvInit
    /\ TrackInit
    /\ loc = LocFresh(TRUE)
    /\ fs = FsFresh
    /\ fc = FcFresh(FALSE)
    /\ slots = {1}
    /\ call = [i \in Slots |-> FreshCall]

NegotiateNext ==
    \/ \E i \in slots : HandleVerify(i)
    \/ \E i \in slots : ReadCurrentChain(i)
    \/ \E i \in slots : FirstSwitch(i)
    \/ \E i \in slots : AddChain(i)
    \/ \E i \in slots : SwitchAfterAdd(i)
    \/ \E i \in slots : SwitchInCatch(i)
    \/ \E i \in slots : PollTimer(i)
    \/ \E i \in slots : PollRead(i)
    \/ \E i \in slots : FinalRead(i)
    \/ \E i \in slots : WriteSettles(i)

Next == NegotiateNext \/ EnvNext

\* The negotiating orchestrator, one handleVerify at a time.
Spec == Init /\ [][Next]_vars

\* A connected wallet whose cached chain id is the target: Verify Me is enabled.
InitConc ==
    /\ hasEthereum \in BOOLEAN
    /\ walletChain \in ChainIds
    /\ isConnected = TRUE
    /\ address = "0xA"
    /\ chainId = celoSepoliaId
    /\ TrackInit
    /\ loc = LocFresh(TRUE)
    /\ fs = FsFresh
    /\ fc = FcFresh(FALSE)
    /\ slots = Slots
    /\ call = [i \in Slots |-> FreshCall]

NextConc == NegotiateNext

\* The negotiating orchestrator while the wallet stays as InitConc sets it, with
\* the user free to press Verify Me again while an earlier handleVerify is
\* suspended.
SpecConc == InitConc /\ [][NextConc]_vars

\* The receipt-tracking orchestrator.
SpecTrack == Init /\ [][TrackNext]_vars

\* The page loads with any set of accounts verified on chain by earlier sessions.
InitSend ==
    /\ EnvInit
    /\ TrackFresh
    /\ verifiedOnChain \in SUBSET Addresses
    /\ LocInit
    /\ fs = FsFresh
    /\ fc = FcFresh(FALSE)
    /\ slots = {1}
    /\ call = [i \in Slots |-> FreshCall]

SendNext ==
    \/ LocNext
    \/ TrackConnect
    \/ AccountsChanged
    \/ TrackDisconnect
    \/ ReadSettles

\* The location section of the receipt-tracking HomePage with the wallet's
\* connection and the read of isVerified.
SpecSend == InitSend /\ [][SendNext]_vars

\* The location section of page.tsx beside the Navbar's connection and its
\* read of isVerified (part_001 lines 802-816).
NextPageLoc ==
    \/ PageLocNext
    \/ TrackConnect
    \/ AccountsChanged
    \/ TrackDisconnect
    \/ ReadSettles

SpecPageLoc == InitSend /\ [][NextPageLoc]_vars

\* The wait of line 302 ends and a rejected await is caught: an activation
\* inside its try leaves it.
SendFairness == WF_vars(SendTimerFires \/ SendThrows)

\* The location section under that assumption.
SpecSendLive == InitSend /\ [][SendNext]_vars /\ SendFairness

\* The force-switch effect with the wallet's connect, disconnect and chain
\* changes.
SpecForce == Init /\ [][ForceNext]_vars

\* The activations of a user who waits for handleVerify to end before pressing
\* Verify Me again.
OneAtATime == {1}

\* The provider answers every request and every timer fires: each step of an
\* activation that is waiting is eventually taken. Pressing Verify Me and the
\* wallet's own changes are under no such obligation.
NegotiateFairness ==
    \A i \in OneAtATime :
        /\ WF_vars(ReadCurrentChain(i))
        /\ WF_vars(FirstSwitch(i))
        /\ WF_vars(AddChain(i))
        /\ WF_vars(SwitchAfterAdd(i))
        /\ WF_vars(SwitchInCatch(i))
        /\ WF_vars(PollTimer(i))
        /\ WF_vars(PollRead(i))
        /\ WF_vars(FinalRead(i))
        /\ WF_vars(WriteSettles(i))

\* A connected wallet whose cached chain id is the target, one handleVerify at
\* a time.
InitLive ==
    /\ hasEthereum \in BOOLEAN
    /\ walletChain \in ChainIds
    /\ isConnected = TRUE
    /\ address = "0xA"
    /\ chainId = celoSepoliaId
    /\ TrackInit
    /\ loc = LocFresh(TRUE)
    /\ fs = FsFresh
    /\ fc = FcFresh(FALSE)
    /\ slots = OneAtATime
    /\ call = [i \in Slots |-> FreshCall]

NextLive == NegotiateNext \/ WalletChangesChain

\* The negotiating orchestrator with a provider that answers, while the
\* connection stays as InitLive sets it.
SpecLive == InitLive /\ [][NextLive]_vars /\ NegotiateFairness

NextPage ==
    \/ ForceNext
    \/ \E i \in slots : ForceRendered /\ HandleVerify(i)
    \/ \E i \in slots : ForceRendered /\ ReadCurrentChain(i)
    \/ \E i \in slots : ForceRendered /\ FirstSwitch(i)
    \/ \E i \in slots : ForceRendered /\ AddChain(i)
    \/ \E i \in slots : ForceRendered /\ SwitchAfterAdd(i)
    \/ \E i \in slots : ForceRendered /\ SwitchInCatch(i)
    \/ \E i \in slots : ForceRendered /\ PollTimer(i)
    \/ \E i \in slots : ForceRendered /\ PollRead(i)
    \/ \E i \in slots : ForceRendered /\ FinalRead(i)
    \/ \E i \in slots : ForceRendered /\ WriteSettles(i)

\* The HomePage of page.tsx as a whole: the force-switch effect and handleVerify.
SpecPage == Init /\ [][NextPage]_vars

\* The page loads inside Farcaster or outside it.
InitFarcaster ==
    /\ EnvInit
    /\ TrackInit
    /\ loc = LocFresh(TRUE)
    /\ fs = FsFresh
    /\ \E f \in BOOLEAN : fc = FcFresh(f)
    /\ slots = {1}
    /\ call = [i \in Slots |-> FreshCall]

\* FarcasterAutoConnect with the wallet connecting and disconnecting around it.
SpecFarcaster == InitFarcaster /\ [][FarcasterNext]_vars

\* The activations of handleVerify that SpecInvoke lets overlap.
TwoAtATime == {1, 2}

\* The page is one of the three HomePage variants: that of page.tsx or that of
\* part_000, with the activations of its handleVerify there to be called, or
\* that of part_001, which has none of them.
InitInvoke ==
    /\ EnvInit
    /\ TrackInit
    /\ loc = LocFresh(TRUE)
    /\ fs = FsFresh
    /\ fc = FcFresh(FALSE)
    /\ \/ /\ slots \in {TwoAtATime, {}}
          /\ call = [i \in Slots |-> FreshCall]
       \/ /\ slots = TwoAtATime
          /\ call = [i \in Slots |-> StubFreshCall]

NextInvoke ==
    \/ \E i \in slots : InvokeHandleVerify(i)
    \/ \E i \in slots : ReadCurrentChain(i)
    \/ \E i \in slots : FirstSwitch(i)
    \/ \E i \in slots : AddChain(i)
    \/ \E i \in slots : SwitchAfterAdd(i)
    \/ \E i \in slots : SwitchInCatch(i)
    \/ \E i \in slots : PollTimer(i)
    \/ \E i \in slots : PollRead(i)
    \/ \E i \in slots : FinalRead(i)
    \/ \E i \in slots : WriteSettles(i)
    \/ \E i \in slots : StubHandleVerify(i)
    \/ \E i \in slots : StubInvokeHandleVerify(i)
    \/ \E i \in slots : StubWriteSettles(i)
    \/ (slots = {} /\ TrackInvokeHandleVerify)
    \/ (slots = {} /\ TrackWriteSettles)
    \/ Connect
    \/ Disconnect

\* The three handleVerify functions called directly, connected or not, also
\* while earlier calls are suspended, each followed through everything it
\* issues.
SpecInvoke == InitInvoke /\ [][NextInvoke]_vars

(***************************************************************************)
(* Properties                                                              *)
(***************************************************************************)
Settled(c) == c.isOnCelo # "pending"

InFlight(c) == c.pc \notin {"idle", "done"}

EnsureAlerts == {AlertNotInstalled, AlertTimedOut, AlertRejected, AlertSwitchFailed}

\* C1, as stated: ensureCeloNetwork resolves true if and only if the provider's
\* chain is the target when the call settles.
C1_SuccessIffOnTarget ==
    \A i \in slots :
        Settled(call[i]) =>
            (call[i].isOnCelo = "true" <=> call[i].settledOn = celoSepoliaId)

\* C1, amended: ensureCeloNetwork resolves true only if the provider's chain is
\* the target when the call settles (no false positive).
C1_NoFalsePositive ==
    \A i \in slots :
        call[i].isOnCelo = "true" => call[i].settledOn = celoSepoliaId

\* ensureCeloNetwork resolved true after a switch and polling.
C1_Witness ==
    \E i \in slots :
        /\ call[i].isOnCelo = "true"
        /\ call[i].switchAccepted
        /\ call[i].attempts > 0
        /\ call[i].settledOn = celoSepoliaId

\* C2: verifyUser is dispatched by handleVerify only while the provider's chain
\* is the target, after a read of the provider's chain id by that handleVerify.
C2_DispatchOnlyOnTarget ==
    /\ \A i \in slots :
          call[i].nWrite > 0 =>
              call[i].dispatchedOn = celoSepoliaId /\ call[i].nRead >= 2
    /\ hv.nWrite > 0 => hv.dispatchedOn = celoSepoliaId /\ hv.chainReads > 0

\* C2 for page.tsx alone: its handleVerify dispatches on the target chain only.
NegotiatingDispatchOnTarget ==
    \A i \in slots :
        call[i].nWrite > 0 =>
            call[i].dispatchedOn = celoSepoliaId /\ call[i].nRead >= 2

\* C3: when the first read reports the target, ensureCeloNetwork resolves true
\* having issued no switch request and no add-chain request.
C3_AlreadyOnTargetNoRequests ==
    \A i \in slots :
        call[i].already =>
            /\ call[i].isOnCelo = "true"
            /\ call[i].nSwitch = 0
            /\ call[i].nAdd = 0

\* The first read reported the target and the call has settled.
C3_Witness ==
    \E i \in slots : call[i].already /\ call[i].nRead >= 1 /\ Settled(call[i])

\* C4: when the first switch fails with 4902, the call settles having issued
\* exactly one add-chain request and at most two switch requests.
C4_UnknownChainOneAddTwoSwitches ==
    \A i \in slots :
        call[i].firstSwitch = "unknown" /\ Settled(call[i]) =>
            call[i].nAdd = 1 /\ call[i].nSwitch <= 2

\* C5: ten polls that never read the target end the call with false (TimedOut):
\* the loop never goes on beyond maxAttempts.
C5_TimedOutResolvesFalse ==
    \A i \in slots :
        /\ call[i].attempts <= maxAttempts
        /\ call[i].pc \in {"sleep218", "read219"} => call[i].attempts < maxAttempts
        /\ call[i].attempts = maxAttempts =>
              /\ call[i].pc = "done"
              /\ call[i].isOnCelo = "false"
              /\ call[i].alert = AlertTimedOut
              /\ call[i].nWrite = 0

\* A switch was accepted and all ten polls read another chain.
C5_Witness ==
    \E i \in slots : call[i].switchAccepted /\ call[i].attempts = maxAttempts

\* C6: at most one handleVerify is in flight at any time.
C6_NoOverlap ==
    Cardinality({i \in slots : InFlight(call[i])}) <= 1

\* C7: with no wallet provider, handleVerify makes no request at all and ends
\* with the missing-provider failure.
C7_NoProviderNoCalls ==
    ~hasEthereum =>
        /\ hv.nWrite = 0
        /\ \A i \in slots :
              /\ call[i].nRead = 0 /\ call[i].nSwitch = 0
              /\ call[i].nAdd = 0 /\ call[i].nWrite = 0
              /\ call[i].pc = "done" => call[i].alert = AlertNotInstalled

\* C7 for page.tsx alone.
NegotiatingNoProviderNoCalls ==
    ~hasEthereum =>
        \A i \in slots :
            /\ call[i].nRead = 0 /\ call[i].nSwitch = 0
            /\ call[i].nAdd = 0 /\ call[i].nWrite = 0
            /\ call[i].pc = "done" => call[i].alert = AlertNotInstalled

\* C8, as stated: with no provider handle ensureCeloNetwork rejects, and it
\* resolves false only for Rejected and TimedOut.
C8_RejectsWhenProviderMissing ==
    \A i \in slots :
        /\ ~hasEthereum /\ call[i].pc # "idle" => call[i].isOnCelo = "rejected"
        /\ call[i].isOnCelo = "false" => call[i].alert \in {AlertRejected, AlertTimedOut}

\* C8, amended: with no provider handle ensureCeloNetwork does not reject, it
\* resolves false at once with no request issued; it resolves false as well
\* for Rejected, TimedOut and every other failure that reaches its outer catch
\* as an error object, and it rejects only when that catch receives a
\* rejection with no error object.
C8_ResolvesFalseNeverThrows ==
    \A i \in slots :
        /\ call[i].isOnCelo \in {"pending", "true", "false", "rejected"}
        /\ call[i].isOnCelo = "rejected" <=> call[i].caught = "nullish"
        /\ call[i].caught = "object" =>
              /\ call[i].isOnCelo = "false"
              /\ call[i].alert \in {AlertRejected, AlertSwitchFailed}
        /\ ~hasEthereum /\ call[i].pc # "idle" =>
              /\ call[i].pc = "done"
              /\ call[i].isOnCelo = "false"
              /\ call[i].alert = AlertNotInstalled
              /\ call[i].nRead = 0 /\ call[i].nSwitch = 0 /\ call[i].nAdd = 0
        /\ call[i].isOnCelo = "false" => call[i].alert \in EnsureAlerts
        /\ hasEthereum => call[i].alert # AlertNotInstalled

\* ensureCeloNetwork resolved false for a missing provider.
C8_Witness ==
    \E i \in slots :
        ~hasEthereum /\ call[i].isOnCelo = "false" /\ call[i].alert = AlertNotInstalled

\* C9: when ensureCeloNetwork resolves false or rejects the attempt is over,
\* failed (under the alert of ensureCeloNetwork, or that of handleVerify's
\* catch after a rejection), and no verifyUser call is dispatched in it.
C9_FailedNegotiationNoSubmission ==
    \A i \in slots :
        call[i].isOnCelo \in {"false", "rejected"} =>
            /\ call[i].pc = "done"
            /\ call[i].isOnCelo = "false" => call[i].alert \in EnsureAlerts
            /\ call[i].isOnCelo = "rejected" => call[i].alert = AlertVerifyFailed
            /\ call[i].nWrite = 0
            /\ call[i].dispatchedOn = NoChain
            /\ ~call[i].txSent

\* The user declined the switch prompt (code 4001).
C9_Witness ==
    \E i \in slots :
        /\ call[i].isOnCelo = "false"
        /\ call[i].firstSwitch = "failed"
        /\ call[i].alert = AlertRejected

\* C10: a confirmed receipt triggers exactly one refetch of isVerified, for the
\* address connected when it is confirmed; nothing else triggers one.
C10_OneRefetchPerConfirmation ==
    \A h \in Hashes :
        /\ fx.nRefetch[h] <= 1
        /\ receipt[h] # "confirmed" => fx.nRefetch[h] = 0
        /\ receipt[h] = "confirmed" /\ Rendered =>
              /\ fx.nRefetch[h] = 1
              /\ fx.refetchedFor[h] = fx.confirmedFor[h]

\* A receipt was confirmed after the user switched accounts, and refetched.
C10_Witness ==
    \E h \in Hashes :
        /\ receipt[h] = "confirmed"
        /\ Rendered
        /\ fx.nRefetch[h] = 1
        /\ fx.refetchedFor[h] \in Addresses
        /\ fx.refetchedFor[h] # hv.sender

\* part_001: while its handleVerify awaits writeContract the button is disabled.
TrackInFlightDisablesButton == hv.pc = "write281" => verifying

\* The watcher of the transaction handle in verifyTxHash reported a failure.
WatcherFailed == verifyTxHash # NoHash /\ receipt[verifyTxHash] = "failed"

\* C11: once the watcher of a transaction has failed and the effects of that
\* render have run, the attempt is over: the in-flight flag and the handle are
\* reset (no rendered state still watches a handle whose watcher failed, and
\* without a handle or a pending submission the in-flight flag is down), so
\* that the Verify button can start a fresh attempt.
C11_WatcherFailureResets ==
    Rendered =>
        /\ ~WatcherFailed
        /\ (hv.pc = "idle" /\ verifyTxHash = NoHash) => ~verifying

\* After a watcher failure the receipt-tracking orchestrator keeps the in-flight
\* flag and the failed handle whatever happens next: the Verify button stays
\* disabled.
TrackFailureIsPermanent ==
    [][(WatcherFailed /\ verifying) =>
          (WatcherFailed /\ verifying /\ ~VerifyMyAccountEnabled)']_vars

\* C12: within one verify attempt the stages run in the order Negotiate,
\* Submit, Await, Refresh: verifyUser is dispatched only after
\* ensureCeloNetwork resolved true, a receipt is watched only after the
\* submission resolved with a handle, and isVerified is re-read only after the
\* watcher confirmed.
C12_StagesInOrder ==
    /\ \A i \in slots : call[i].nWrite > 0 => call[i].isOnCelo = "true"
    /\ hv.nWrite > 0 => hv.isOnCelo = "true"
    /\ verifyTxHash # NoHash => hv.outcome = "accepted"
    /\ \A h \in Hashes : fx.nRefetch[h] > 0 => receipt[h] = "confirmed"

\* C12 for page.tsx alone: Submit follows a successful Negotiate.
NegotiatingSubmitAfterNegotiate ==
    \A i \in slots : call[i].nWrite > 0 => call[i].isOnCelo = "true"

\* C12 for the stages the receipt-tracking orchestrator has: Await follows a
\* submission that resolved with a handle, Refresh follows a confirmation.
TrackAwaitThenRefresh ==
    /\ verifyTxHash # NoHash => (hv.outcome = "accepted" /\ hv.pc = "idle")
    /\ \A h \in Hashes : fx.nRefetch[h] > 0 => receipt[h] = "confirmed"

\* C13: handleSendLocation runs only in states where isVerified is true: while
\* the flag is false or unknown the Alert button is disabled and
\* sendLocationToChain is never called.
C13_AlertOnlyWhenVerified ==
    /\ ~isVerified => ~AlertEnabled
    /\ ~loc.sentUnverified

\* sendLocationToChain has been called, for a verified account.
C13_Witness ==
    /\ loc.sent
    /\ loc.sendingLocation
    /\ isVerified

\* C14: isVerified is read only for a known address of a connected wallet, and
\* while the read is disabled (no address or disconnected) the flag the UI uses
\* is false; a true flag is the contract's answer for the current address,
\* never one left from an earlier address or session.
C14_FlagFalseWhileReadDisabled ==
    /\ (fx.fetching /\ fx.readArgs # NoAddress) =>
           (ReadEnabled /\ fx.readArgs = address)
    /\ ~ReadEnabled => ~isVerified
    /\ isVerified => address \in verifiedOnChain

\* The read is disabled and the flag the UI uses is true: the data the hook
\* held when the wallet disconnected is still what Boolean(isVerifiedData) sees.
StaleTrueFlag == ~ReadEnabled /\ isVerified

\* The flag is true for an account the contract has not verified: the data is
\* the answer for the account the wallet was on before.
TrueFlagOfEarlierAddress == ReadEnabled /\ isVerified /\ address \notin verifiedOnChain

\* refetchVerification() reads isVerified while the read is disabled.
RefetchWhileDisabled == fx.fetching /\ fx.readArgs # NoAddress /\ ~ReadEnabled

\* A true flag is an answer the contract gave: some account is verified.
TrueFlagWasAnswered == isVerified => verifiedOnChain # {}

\* The alerts that report a failed activation of handleVerify.
FailureAlerts ==
    EnsureAlerts \cup {AlertConnectFirst, AlertSwitchBefore, AlertTxChain,
                       AlertVerifyFailed}

\* Every way handleVerify and ensureCeloNetwork end after a failed request is a
\* reported one: the activation is over and an alert names the failure.
NegotiatingFailuresAreCaught ==
    \A i \in slots :
        /\ call[i].pc \in Pcs
        /\ call[i].isOnCelo = "false" =>
               (call[i].pc = "done" /\ call[i].alert \in EnsureAlerts)
        /\ call[i].pc = "done" =>
               (call[i].txSent /\ call[i].alert = AlertSent)
                   \/ (~call[i].txSent /\ call[i].alert \in FailureAlerts)

\* C15 but for the report: every way handleVerify ends is the sent
\* transaction, a failure under an alert, or the rejection of handleVerify
\* itself, which shows no alert.
NegotiatingFailuresEndTheCall ==
    \A i \in slots :
        /\ call[i].pc \in Pcs
        /\ call[i].verifyRejected =>
               /\ call[i].pc = "done"
               /\ call[i].alert = ""
               /\ call[i].isOnCelo = "true"
               /\ call[i].readFailed = "verify" \/ call[i].nWrite = 1
        /\ call[i].pc = "done" /\ ~call[i].verifyRejected =>
               (call[i].txSent /\ call[i].alert = AlertSent)
                   \/ (~call[i].txSent /\ call[i].alert \in FailureAlerts)

\* handleVerify has rejected: its final read failed with a message that is not
\* a string, and its catch threw.
HandleVerifyRejected ==
    \E i \in slots :
        /\ call[i].verifyRejected
        /\ call[i].readFailed = "verify"
        /\ call[i].nWrite = 0

\* C15: every failed request of handleVerify and ensureCeloNetwork ends the
\* activation with a reported failure, never with an unhandled rejection, and
\* no request is issued again by the code itself except the one switch retry
\* that follows an add-chain request.
C15_FailuresTerminalNoReissue ==
    /\ NegotiatingFailuresAreCaught
    /\ \A i \in slots :
          /\ call[i].nAdd <= 1
          /\ call[i].nWrite <= 1
          /\ call[i].nSwitch <= 1 + call[i].nAdd

\* C16: a verify attempt dispatches verifyUser at most once; when the call is
\* rejected it is not dispatched again and the attempt records no transaction
\* handle.
C16_OneDispatchNoRetry ==
    /\ hv.nWrite <= 1
    /\ hv.outcome = "rejected" =>
           /\ hv.pc = "idle"
           /\ hv.nWrite = 1
           /\ verifyTxHash = NoHash
           /\ ~verifying

\* writeContract of the attempt was rejected.
C16_Witness ==
    /\ hv.outcome = "rejected"
    /\ hv.nWrite = 1
    /\ isConnected

\* C16 for page.tsx: one verifyUser per activation, and a rejected one ends the
\* activation with no hash, under an alert unless the catch itself threw.
NegotiatingOneDispatch ==
    \A i \in slots :
        /\ call[i].nWrite <= 1
        /\ call[i].pc = "done" /\ call[i].nWrite = 1 /\ ~call[i].txSent =>
               \/ call[i].alert \in {AlertTxChain, AlertVerifyFailed}
               \/ call[i].verifyRejected /\ call[i].alert = ""

\* C17: when the first switch request fails with an error other than 4902,
\* ensureCeloNetwork ends there: no add-chain request, no further switch
\* request, no poll read, and it resolves false.
C17_OtherSwitchFailureIsTerminal ==
    \A i \in slots :
        call[i].firstSwitch = "failed" =>
            /\ call[i].isOnCelo = "false"
            /\ call[i].pc = "done"
            /\ call[i].nAdd = 0
            /\ call[i].nSwitch = 1
            /\ call[i].nRead = 1
            /\ call[i].attempts = 0
            /\ call[i].nWrite = 0

\* C17 but for how the call settles: after such a failure nothing more is
\* issued; the call resolves false when the failure is an error object and
\* rejects when it is not.
OtherSwitchFailureIssuesNothing ==
    \A i \in slots :
        call[i].firstSwitch = "failed" =>
            /\ call[i].pc = "done"
            /\ call[i].nAdd = 0
            /\ call[i].nSwitch = 1
            /\ call[i].nRead = 1
            /\ call[i].attempts = 0
            /\ call[i].nWrite = 0
            /\ call[i].caught = "object" => call[i].isOnCelo = "false"
            /\ call[i].caught = "nullish" => call[i].isOnCelo = "rejected"
            /\ call[i].caught # "none"

\* The first switch request was declined by the user (4001) and the call has
\* resolved false.
SwitchDeclinedResolvedFalse ==
    \E i \in slots :
        /\ call[i].firstSwitch = "failed"
        /\ call[i].alert = AlertRejected
        /\ call[i].isOnCelo = "false"

\* The first switch request was rejected with no error object and
\* ensureCeloNetwork has rejected.
SwitchFailedWithoutObject ==
    \E i \in slots :
        /\ call[i].firstSwitch = "failed"
        /\ call[i].isOnCelo = "rejected"
        /\ call[i].alert = AlertVerifyFailed

\* C18: an add-chain failure is swallowed only when it says that the chain is
\* registered already; after any other add-chain failure ensureCeloNetwork
\* issues no retry switch and does not resolve true.
C18_OtherAddFailurePropagates ==
    \A i \in slots :
        call[i].addOutcome = "other" =>
            /\ call[i].nSwitch = 1
            /\ call[i].isOnCelo = "false"

\* After an add that succeeded or was swallowed, the negotiation goes on: the
\* switch is requested again, and an accepted switch leads to the polling loop.
RetryFollowsAdd ==
    \A i \in slots :
        call[i].addOutcome = "added" =>
            /\ call[i].nSwitch >= 2
            /\ call[i].switchAccepted =>
                   (call[i].pc = "sleep218" \/ call[i].nRead >= 2)

\* C19: after the add-chain request succeeded, or failed saying that the chain
\* is registered already, ensureCeloNetwork requests the switch again exactly
\* once and, when that switch is accepted, goes on to polling; a swallowed add
\* failure never ends the negotiation.
C19_OneRetrySwitchAfterAdd ==
    /\ RetryFollowsAdd
    /\ \A i \in slots : call[i].addOutcome = "added" => call[i].nSwitch = 2

\* C20: after an accepted switch request ensureCeloNetwork reads the chain id
\* at most maxAttempts times, each read after one wait; it resolves true at the
\* first poll that reads the target (after exactly k polls when poll k is the
\* first match) and reports TimedOut only after exactly maxAttempts reads that
\* did not match.
C20_PollsUntilFirstMatch ==
    \A i \in slots :
        LET c == call[i]
        IN /\ c.nPoll <= maxAttempts
           /\ c.nPoll > 0 => c.switchAccepted
           /\ c.pc = "sleep218" => c.nPoll = c.attempts
           /\ c.pc = "read219" => c.nPoll = c.attempts + 1
           /\ (c.isOnCelo = "true" /\ c.switchAccepted) =>
                  /\ c.nPoll = c.attempts + 1
                  /\ c.settledOn = celoSepoliaId
           /\ c.alert = AlertTimedOut =>
                  /\ c.isOnCelo = "false"
                  /\ c.attempts = maxAttempts
                  /\ c.nPoll = maxAttempts

\* Every poll read is issued by the timer of the wait that precedes it.
PollFollowsWait ==
    [][\A i \in slots :
          call[i].nPoll' > call[i].nPoll =>
              (call[i].pc = "sleep218" /\ call[i].nPoll' = call[i].nPoll + 1)]_vars

\* Switch rejected with 4902, add accepted, retried switch accepted, and the
\* first poll read the target: true after exactly one poll.
C20_Witness ==
    \E i \in slots :
        /\ call[i].firstSwitch = "unknown"
        /\ call[i].addOutcome = "added"
        /\ call[i].nSwitch = 2
        /\ call[i].isOnCelo = "true"
        /\ call[i].nPoll = 1
        /\ call[i].attempts = 0

\* Three polls missed the target and the fourth read it.
C20_WitnessLaterPoll ==
    \E i \in slots :
        /\ call[i].isOnCelo = "true"
        /\ call[i].nPoll = 4
        /\ call[i].attempts = 3

\* C21: ensureCeloNetwork decides from the chain id the provider reports during
\* the call, never from wagmi's cached chain id: with the cache on the target
\* and the provider elsewhere it does not short-circuit to success, and with
\* the cache elsewhere and the provider on the target it returns true without
\* a switch request; handleVerify dispatches on what its own read reports.
C21_DecidesFromProviderRead ==
    \A i \in slots :
        LET c == call[i]
        IN /\ c.seen \in {"cache", "neither"} =>
                 /\ ~c.already
                 /\ c.nSwitch >= 1
                 /\ c.isOnCelo = "true" => (c.switchAccepted /\ c.nPoll >= 1)
           /\ c.seen \in {"provider", "both"} =>
                 /\ c.already
                 /\ c.isOnCelo = "true"
                 /\ c.nSwitch = 0
           /\ c.nWrite > 0 => c.dispatchedOn = celoSepoliaId

\* The cache was stale (not the target) while the provider reported the target:
\* ensureCeloNetwork returned true with no switch request.
C21_Witness ==
    \E i \in slots :
        /\ call[i].seen = "provider"
        /\ call[i].isOnCelo = "true"
        /\ call[i].nSwitch = 0

\* The cache was on the target while the provider reported another chain: the
\* switch was requested.
C21_WitnessCacheOnTarget ==
    \E i \in slots :
        /\ call[i].seen = "cache"
        /\ call[i].nSwitch >= 1

\* C22: every connect or chain-id change event that leaves the wallet connected
\* on a cached chain id other than the target starts one switch toward the
\* target without user action; a rejected or unanswered request is not issued
\* again, so the requests never outnumber those events and match them once the
\* effect has run.
C22_OneSwitchPerEvent ==
    /\ fs.nSwitch <= fs.nEvents
    /\ ForceRendered => fs.nSwitch = fs.nEvents

\* The effect's request was rejected; the wallet is still connected on another
\* chain and no further request has been issued.
C22_Witness ==
    /\ fs.rejected
    /\ fs.pending = 0
    /\ fs.nSwitch = 1
    /\ ForceRendered
    /\ ForceSwitchWanted

\* C23: no switch request is issued by the force-switch effect or by
\* ensureCeloNetwork when the chain id it consulted equals the target (the
\* cached chain id for the effect, the provider's answer for
\* ensureCeloNetwork), and the effect issues none while the wallet is
\* disconnected.
C23_NoSwitchWhenOnTarget ==
    /\ ~fs.badIssue
    /\ \A i \in slots :
          call[i].nSwitch >= 1 => call[i].seen \in {"cache", "neither"}

\* Both paths have issued a switch request.
C23_Witness ==
    /\ fs.nSwitch >= 1
    /\ \E i \in slots : call[i].nSwitch >= 1 /\ call[i].seen = "cache"

\* The refresh read of the effect fails: the step changes nothing but the
\* read's own bookkeeping.
RefreshFailureIsSilent ==
    (fx.refresh = "pending" /\ fx'.refresh = "failed") =>
        /\ isVerifiedData' = isVerifiedData
        /\ verifying' = verifying
        /\ verifyTxHash' = verifyTxHash
        /\ hv' = hv
        /\ receipt' = receipt

\* The attempt whose receipt was confirmed is over once the effect has run: its
\* handle is no longer watched and the in-flight flag is down.
ConfirmedIsDone ==
    Rendered =>
        /\ \A h \in Hashes : receipt[h] = "confirmed" => verifyTxHash # h
        /\ (hv.pc = "idle" /\ verifyTxHash = NoHash) => ~verifying

\* C24: once the watcher reports the confirmation, the attempt is done (flag
\* and handle cleared) whether the refresh read of isVerified succeeds or
\* fails; a failed refresh leaves the flag's value as it was and puts the
\* attempt in no failed state.
C24_DoneWhateverTheRefresh ==
    []ConfirmedIsDone /\ [][RefreshFailureIsSilent]_vars

\* The receipt was confirmed, the refresh read failed, and the attempt is done.
C24_Witness ==
    /\ fx.refresh = "failed"
    /\ receipt[1] = "confirmed"
    /\ verifyTxHash = NoHash
    /\ ~verifying
    /\ Rendered

\* C25: when the verifyUser submission is rejected the attempt is over with its
\* transient state reset (flag down, no handle), neither the watcher nor the
\* refresh is entered for it, and the Verify button can start a fresh attempt.
C25_RejectionEndsAttempt ==
    hv.outcome = "rejected" =>
        /\ hv.pc = "idle"
        /\ ~verifying
        /\ verifyTxHash = NoHash
        /\ ~isVerifyingTx /\ ~isVerifySuccess
        /\ hv.nextHash <= MaxTx =>
               (receipt[hv.nextHash] = "none" /\ fx.nRefetch[hv.nextHash] = 0)
        /\ (Rendered /\ isConnected /\ ~isVerified) =>
               (VerifyMyAccountEnabled /\ ENABLED TrackHandleVerify)

\* A fresh attempt is under way after a rejected one.
C25_Witness ==
    /\ hv.afterRejection
    /\ hv.pc = "write281"
    /\ verifying
    /\ verifyTxHash = NoHash

\* A handle other than the recorded one that has a result or a running query.
Earlier(h) == h # verifyTxHash /\ receipt[h] # "none"

\* The result of an earlier handle changes nothing and causes no refresh.
EarlierHandleIsInert ==
    \A h \in Hashes :
        Earlier(h) =>
            /\ receipt'[h] = receipt[h]
            /\ fx'.nRefetch[h] = fx.nRefetch[h]
            /\ fx'.refetchedFor[h] = fx.refetchedFor[h]

\* Only the recorded handle is watched, and a confirmed handle that is no
\* longer the recorded one has had its one refresh.
OneHandleWatched ==
    /\ \A h \in Hashes : receipt[h] = "pending" => h = verifyTxHash
    /\ Cardinality({h \in Hashes : receipt[h] = "pending"}) <= 1
    /\ \A h \in Hashes :
          (h # verifyTxHash /\ receipt[h] = "confirmed") => fx.nRefetch[h] = 1

\* C26: at most one transaction handle is watched at any time, and once a new
\* attempt has recorded its handle the result of an earlier handle causes no
\* refresh and no state change.
C26_OneHandleAtATime ==
    []OneHandleWatched /\ [][EarlierHandleIsInert]_vars

\* A second attempt has recorded its handle after the first one was confirmed.
C26_Witness ==
    /\ verifyTxHash = 2
    /\ receipt[2] = "pending"
    /\ receipt[1] = "confirmed"
    /\ fx.nRefetch[1] = 1

\* Once a chain-id read of ensureCeloNetwork has failed, the activation issues
\* nothing more: its record stays as it is until handleVerify is started anew.
NothingAfterFailedRead ==
    \A i \in slots :
        (call[i].readFailed = "ensure" /\ call'[i].readFailed = "ensure") =>
            call'[i] = call[i]

\* A failed chain-id read ends ensureCeloNetwork with false and an alert; no
\* further read (the polls so far and the first read are all there is) and no
\* verifyUser follow.
FailedReadResolvesFalse ==
    \A i \in slots :
        call[i].readFailed = "ensure" =>
            /\ call[i].isOnCelo = "false"
            /\ call[i].pc = "done"
            /\ call[i].alert \in {AlertRejected, AlertSwitchFailed}
            /\ call[i].nRead = 1 + call[i].nPoll
            /\ call[i].nWrite = 0

\* C28: when a chain-id read of ensureCeloNetwork fails (the first read or a
\* poll), the call resolves false at once: it does not reject and issues no
\* switch, add or chain-id request after the failed read.
C28_FailedReadIsTerminal ==
    []FailedReadResolvesFalse /\ [][NothingAfterFailedRead]_vars

\* C28 but for how the call settles: a failed read is the last request of the
\* call; it resolves false when the failure is an error object and rejects
\* when it is not.
FailedReadEndsTheCall ==
    \A i \in slots :
        call[i].readFailed = "ensure" =>
            /\ call[i].pc = "done"
            /\ call[i].nRead = 1 + call[i].nPoll
            /\ call[i].nWrite = 0
            /\ call[i].caught = "object" =>
                   /\ call[i].isOnCelo = "false"
                   /\ call[i].alert \in {AlertRejected, AlertSwitchFailed}
            /\ call[i].caught = "nullish" =>
                   /\ call[i].isOnCelo = "rejected"
                   /\ call[i].alert = AlertVerifyFailed
            /\ call[i].caught # "none"

FailedReadIssuesNothing == []FailedReadEndsTheCall /\ [][NothingAfterFailedRead]_vars

\* A poll read failed after two polls that missed the target.
PollReadFailed ==
    \E i \in slots :
        /\ call[i].readFailed = "ensure"
        /\ call[i].nPoll = 3
        /\ call[i].attempts = 2
        /\ call[i].isOnCelo = "false"

\* The first read failed.
FirstReadFailed ==
    \E i \in slots :
        /\ call[i].readFailed = "ensure"
        /\ call[i].nRead = 1
        /\ call[i].nSwitch = 0
        /\ call[i].isOnCelo = "false"

\* The first read was rejected with no error object and ensureCeloNetwork has
\* rejected.
FirstReadFailedWithoutObject ==
    \E i \in slots :
        /\ call[i].readFailed = "ensure"
        /\ call[i].nRead = 1
        /\ call[i].isOnCelo = "rejected"
        /\ call[i].alert = AlertVerifyFailed

\* ensureCeloNetwork is running for activation i.
InEnsure(i) == call[i].isOnCelo = "pending" /\ call[i].pc \notin {"idle", "done"}

\* The eth_chainId requests of ensureCeloNetwork: handleVerify issues its own
\* read (line 258) in the step in which ensureCeloNetwork returns true.
EnsureReads(c) == c.nRead - (IF c.isOnCelo = "true" THEN 1 ELSE 0)

EnsureWithinBounds ==
    \A i \in slots :
        /\ call[i].nSwitch <= 3
        /\ call[i].nAdd <= 1
        /\ call[i].nPoll <= maxAttempts
        /\ EnsureReads(call[i]) <= 1 + maxAttempts

\* C27: ensureCeloNetwork ends in every execution in which the provider
\* answers, having issued at most 3 switch requests, at most 1 add-chain
\* request and at most 11 chain-id reads, whatever the answers are.
C27_TerminatesWithinBounds ==
    /\ []EnsureWithinBounds
    /\ \A i \in OneAtATime : InEnsure(i) ~> Settled(call[i])

\* A call that used all it may: 3 switch requests, 1 add request, 11 reads.
C27_Witness ==
    \E i \in slots :
        /\ call[i].nSwitch = 3
        /\ call[i].nAdd = 1
        /\ EnsureReads(call[i]) = 11
        /\ call[i].alert = AlertTimedOut
        /\ Settled(call[i])

\* The polling loop of activation i is waiting for a poll while the provider
\* is on the target.
PollingOnTarget(i) ==
    /\ call[i].switchAccepted
    /\ call[i].pc \in {"sleep218", "read219"}
    /\ walletChain = celoSepoliaId

\* The activation ended on a rejected eth_chainId request (the poll read of
\* line 219 or handleVerify's own read of line 258) without dispatching
\* verifyUser.
EndedOnRejectedRead(i) ==
    /\ call[i].readFailed # "no"
    /\ call[i].pc = "done"
    /\ call[i].isOnCelo # "pending"
    /\ call[i].nWrite = 0

\* C29, as stated: when a switch request was accepted and the provider is on
\* the target at a poll of the loop and stays there, ensureCeloNetwork
\* eventually returns true and the handleVerify that called it dispatches
\* verifyUser.
C29_AsStated ==
    \A i \in OneAtATime :
        PollingOnTarget(i) ~>
            \/ call[i].isOnCelo = "true" /\ call[i].nWrite > 0
            \/ walletChain # celoSepoliaId

\* C29, amended: when a switch request was accepted and the provider is on the
\* target at a poll of the loop and stays there, either ensureCeloNetwork
\* eventually returns true and the handleVerify that called it dispatches
\* verifyUser, or one of the activation's eth_chainId requests is rejected and
\* the activation ends without dispatching verifyUser.
C29_SwitchedEventuallyDispatches ==
    \A i \in OneAtATime :
        PollingOnTarget(i) ~>
            \/ call[i].isOnCelo = "true" /\ call[i].nWrite > 0
            \/ walletChain # celoSepoliaId
            \/ EndedOnRejectedRead(i)

\* With the provider on the target, a poll read was rejected and the
\* activation ended without true and without a dispatch.
PollRejectedOnTarget ==
    \E i \in slots :
        /\ call[i].switchAccepted
        /\ call[i].nPoll >= 1
        /\ walletChain = celoSepoliaId
        /\ call[i].readFailed = "ensure"
        /\ call[i].isOnCelo \in {"false", "rejected"}
        /\ call[i].nWrite = 0

\* With the provider on the target, ensureCeloNetwork returned true and
\* handleVerify's own read was rejected: nothing was dispatched.
RereadRejectedOnTarget ==
    \E i \in slots :
        /\ call[i].switchAccepted
        /\ call[i].nPoll >= 1
        /\ walletChain = celoSepoliaId
        /\ call[i].readFailed = "verify"
        /\ call[i].isOnCelo = "true"
        /\ call[i].nWrite = 0

\* verifyUser was dispatched after a switch and a poll that read the target.
C29_Witness ==
    \E i \in slots :
        /\ call[i].switchAccepted
        /\ call[i].nPoll >= 1
        /\ call[i].isOnCelo = "true"
        /\ call[i].nWrite = 1
        /\ call[i].readFailed = "no"

(***************************************************************************)
(* C30: the recorded handle and the in-flight flag                         *)
(***************************************************************************)
\* A recorded handle has the in-flight flag up, which disables the button.
HandleImpliesVerifying ==
    verifyTxHash # NoHash => (verifying /\ ~VerifyMyAccountEnabled)

\* The handle is dropped only by the effect that consumes its confirmation,
\* in the step that lowers the flag; the flag of a recorded handle is lowered
\* only in that step.
ClearedTogether ==
    /\ (verifyTxHash # NoHash /\ verifyTxHash' = NoHash)
           => (isVerifySuccess /\ verifying /\ ~verifying')
    /\ (verifyTxHash # NoHash /\ verifying /\ ~verifying')
           => (isVerifySuccess /\ verifyTxHash' = NoHash)

\* C30: in the receipt-tracking orchestrator, whenever verifyTxHash is not
\* null the flag verifying is true, so the Verify my account button is
\* disabled by it; the handle and the flag are cleared in one step, the
\* effect run that follows the confirmation of the watched transaction.
C30_HandleHoldsTheFlag == []HandleImpliesVerifying /\ [][ClearedTogether]_vars

\* A handle was recorded, confirmed and cleared with the flag, and the next
\* attempt has its own handle recorded with the flag up again.
C30_Witness ==
    /\ verifyTxHash = 2
    /\ receipt[1] = "confirmed"
    /\ receipt[2] = "pending"
    /\ verifying
    /\ fx.nRefetch[1] = 1

(***************************************************************************)
(* C31: handleVerify without a connection                                  *)
(***************************************************************************)
\* What a handleVerify of page.tsx that returned at line 246 has issued.
NothingIssued(c) ==
    /\ c.pc = "done"
    /\ c.nRead = 0 /\ c.nPoll = 0
    /\ c.nSwitch = 0 /\ c.nAdd = 0
    /\ c.nWrite = 0 /\ ~c.txSent
    /\ c.isOnCelo = "pending"

\* What a handleVerify of part_000 that returned at line 102 has issued.
StubNothingIssued(c) ==
    /\ c.pc = "done117"
    /\ c.alert = StubAlertConnectFirst
    /\ c.nRead = 0 /\ c.nPoll = 0
    /\ c.nSwitch = 0 /\ c.nAdd = 0
    /\ c.nWrite = 0 /\ ~c.txSent

\* A call made without a connection returns in the same step: page.tsx and
\* part_000 leave nothing issued and nothing pending, part_001 leaves the
\* flag, the handle, the receipts and the pending write as they were.
DisconnectedCallReturns ==
    /\ \A i \in slots : (~isConnected /\ InvokeHandleVerify(i)) => NothingIssued(call'[i])
    /\ \A i \in slots :
          (~isConnected /\ StubInvokeHandleVerify(i))
              => /\ StubNothingIssued(call'[i])
                 /\ \A j \in slots \ {i} : call'[j] = call[j]
    /\ (~isConnected /\ TrackInvokeHandleVerify)
          => /\ UNCHANGED <<verifying, verifyTxHash, receipt>>
             /\ hv' = [hv EXCEPT !.returnedAt276 = TRUE]

\* C31: handleVerify called while the wallet is not connected returns without
\* a chain-id read, a switch, an add or a verifyUser call, and leaves the
\* in-flight flag and the transaction handle unchanged.
C31_NoConnectionNoRequests == [][DisconnectedCallReturns]_vars

\* page.tsx: the wallet disconnected while a call awaited the read of line
\* 175, and a second call has returned at line 246.
C31_Witness ==
    /\ ~isConnected
    /\ call[1].pc = "read175"
    /\ call[2].alert = AlertConnectFirst
    /\ NothingIssued(call[2])

\* part_000: the wallet disconnected while a call awaited writeContract, and a
\* second call has returned at line 102.
C31_WitnessStub ==
    /\ ~isConnected
    /\ call[1].pc = "write105"
    /\ StubNothingIssued(call[2])

\* part_000 dispatches verifyUser with the wallet on another chain, without
\* an eth_chainId read or a switch request.
StubDispatchesOffTarget ==
    \E i \in slots :
        /\ call[i].pc = "write105"
        /\ call[i].dispatchedOn # celoSepoliaId
        /\ call[i].nRead = 0 /\ call[i].nSwitch = 0

\* part_000 has two verifyUser calls awaited at once.
StubTwoPending == call[1].pc = "write105" /\ call[2].pc = "write105"

\* part_000 dispatches verifyUser with no window.ethereum.
StubNoProviderDispatches ==
    ~hasEthereum /\ \E i \in slots : call[i].pc = "write105"

\* part_000: an activation dispatches verifyUser once, a rejected call is
\* answered with the alert of line 115 and nothing else, and every activation
\* that is over has shown one of the three alerts.
StubOneDispatch ==
    \A i \in slots :
        /\ call[i].pc \in {"write105", "done117"} => call[i].nWrite <= 1
        /\ call[i].pc = "done117" =>
              /\ call[i].alert \in {StubAlertConnectFirst, StubAlertSent,
                                    StubAlertVerifyFailed}
              /\ ~call[i].verifyRejected
              /\ call[i].alert = StubAlertVerifyFailed =>
                    (call[i].nWrite = 1 /\ ~call[i].txSent)

\* part_000: a writeContract was rejected and the alert of line 115 shown.
StubWriteRejected ==
    \E i \in slots : call[i].alert = StubAlertVerifyFailed

\* part_001: the same while an earlier call awaits writeContract.
C31_WitnessTrack ==
    /\ ~isConnected
    /\ hv.returnedAt276
    /\ hv.pc = "write281"
    /\ hv.pending = 1
    /\ verifying

\* The same, in part_001, after an earlier call recorded a handle: the flag
\* and the handle survive the call.
C31_WitnessHandleKept ==
    /\ ~isConnected
    /\ hv.returnedAt276
    /\ verifying
    /\ verifyTxHash # NoHash

(***************************************************************************)
(* C32: a verified account is not offered the verify action                *)
(***************************************************************************)
\* While isVerified reads true the Verify my account button is not rendered.
VerifiedNotOffered == isVerified => ~VerifyMyAccountEnabled

\* The step in which handleVerify calls writeContract for verifyUser.
TrackDispatches == hv.pc # "write281" /\ hv'.pc = "write281"

\* verifyUser is dispatched only from a state in which isVerified reads false.
DispatchOnlyUnverified == TrackDispatches => ~isVerified

\* C32: once isVerified is true for the connected address the verify action
\* is not offered, and no verifyUser call is dispatched by the user from a
\* state in which the flag reads true.
C32_VerifiedNeverDispatches == []VerifiedNotOffered /\ [][DispatchOnlyUnverified]_vars

\* The connected account reads as verified after its transaction confirmed,
\* with nothing in flight that would disable the button by itself.
C32_Witness ==
    /\ isConnected
    /\ isVerified
    /\ address \in verifiedOnChain
    /\ ~verifying
    /\ verifyTxHash = NoHash
    /\ hv.pc = "idle"
    /\ hv.nWrite = 1

(***************************************************************************)
(* C33: Verify Me is pressed only with the cached chain id on the target   *)
(***************************************************************************)
\* A step that starts a handleVerify in slot i.
Starts(i) == call[i].pc \in {"idle", "done"} /\ call'[i] # call[i]

\* handleVerify starts only from a render whose cached chain id is the target.
StartsOnlyOnCachedTarget ==
    \A i \in slots :
        Starts(i) => /\ isConnected
                     /\ chainId = celoSepoliaId
                     /\ call'[i].clickedOn = celoSepoliaId

\* The step in which line 178 decides against the target and line 184 asks
\* for the switch.
EntersSwitchPath(i) == call[i].pc = "read175" /\ call'[i].pc = "switch184"

\* The switch/add path is entered only with a provider answer that differs
\* from the cached chain id the button was pressed under.
SwitchPathOnlyOnMismatch ==
    \A i \in slots :
        EntersSwitchPath(i) => /\ currentChainIdNumber # call[i].clickedOn
                               /\ call'[i].seen \in {"cache", "neither"}

\* C33: in the negotiating orchestrator handleVerify is triggered only while
\* the cached chain id equals the target, so the switch/add path of
\* ensureCeloNetwork is entered only when the provider's chain differs from
\* the cached chain id the button was pressed under.
C33_SwitchPathMeansStaleCache == [][StartsOnlyOnCachedTarget /\ SwitchPathOnlyOnMismatch]_vars

\* The button was pressed with the cache on the target and the switch has
\* been requested because the provider answered another chain.
C33_Witness ==
    /\ call[1].pc = "switch184"
    /\ call[1].clickedOn = celoSepoliaId
    /\ call[1].seen = "cache"
    /\ walletChain # chainId

\* The same after wagmi's cache caught up with the wallet while the read of
\* line 175 was outstanding.
C33_WitnessCacheCaughtUp ==
    /\ call[1].pc = "switch184"
    /\ call[1].clickedOn = celoSepoliaId
    /\ call[1].seen = "neither"
    /\ walletChain = chainId

(***************************************************************************)
(* C34: FarcasterAutoConnect                                               *)
(***************************************************************************)
\* The step in which the timer's callback calls connect.
IssuesConnect == fc'.nConnect > fc.nConnect

\* connect is called inside Farcaster, by a mounted component, while the
\* wallet is not connected, by the timer of the latest run of the effect and
\* once that timer has waited the delay.
ConnectOnlyWhenDue ==
    IssuesConnect => /\ fc.inFarcaster
                     /\ fc.mounted
                     /\ ~isConnected
                     /\ fc'.issuedBy = fc.runs
                     /\ fc'.issuedAfter >= Delay

\* What a change of the connection state or a teardown leaves of the timers:
\* once the effect has run, a timer still set was set by that run, with the
\* wallet not connected.
NoStaleTimer ==
    FcRendered => \A t \in fc.timers : /\ t.run = fc.runs
                                        /\ fc.mounted
                                        /\ fc.inFarcaster
                                        /\ ~isConnected

\* A timer goes away by firing or by being cleared, and only one of the two.
FiredOrCleared ==
    \A t \in fc.timers :
        (\A u \in fc'.timers : u.run # t.run)
           => \/ (IssuesConnect /\ fc'.issuedBy = t.run /\ fc'.nCancelled = fc.nCancelled)
              \/ (~IssuesConnect /\ fc'.nCancelled = fc.nCancelled + 1)

\* C34: the FarcasterAutoConnect effect issues a connect request only inside
\* Farcaster, only while the wallet is not connected and only after the
\* delay of 500; a change of the connection state or a teardown before the
\* delay elapses clears the pending timer, whose connect request is then
\* never issued.
C34_AutoConnectOnlyWhenDue ==
    []NoStaleTimer /\ [][ConnectOnlyWhenDue /\ FiredOrCleared]_vars

\* A timer was cleared before it fired, a later one fired after the delay,
\* and its connect request connected the wallet.
C34_Witness ==
    /\ fc.nCancelled > 0
    /\ fc.nConnect = 1
    /\ fc.issuedAfter = Delay
    /\ isConnected
    /\ fc.timers = {}
    /\ FcRendered

\* A timer that had waited part of the delay was cleared by a teardown.
C34_WitnessTornDown ==
    /\ ~fc.mounted
    /\ fc.nCancelled > 0
    /\ fc.nConnect = 0
    /\ fc.timers = {}

(***************************************************************************)
(* C35: handleSendLocation                                                 *)
(***************************************************************************)
\* Called without a successful position (and so without a geohash),
\* handleSendLocation changes nothing.
NoSendWithoutPosition ==
    ~(loc.status = "success" /\ geohash5 # NoGeohash)
        => HandleSendLocationBody(loc) = loc

\* While a send is in progress the button is disabled and no second
\* activation is inside its try; the flag is up exactly while one is.
OneSendAtATime ==
    /\ loc.sendingLocation => ~AlertEnabled
    /\ loc.nSending <= 1
    /\ loc.sendingLocation <=> loc.nSending = 1

\* The step in which an activation leaves its try, by either way out.
SendCompletes == loc'.nSending < loc.nSending

\* The flag is false once the send has completed.
FlagDownOnCompletion == SendCompletes => ~loc'.sendingLocation

\* C35: handleSendLocation does nothing unless the geolocation state is
\* success with a geohash; while a send is in progress the send action is
\* disabled and no second send overlaps it; the sendingLocation flag returns
\* to false when the send completes, whether it succeeded or threw.
C35_SendGuardedAndFlagReturns ==
    /\ [](NoSendWithoutPosition /\ OneSendAtATime)
    /\ [][FlagDownOnCompletion]_vars
    /\ (loc.sendingLocation ~> ~loc.sendingLocation)

\* A send that threw has left the flag down, with the button enabled again.
C35_Witness ==
    /\ loc.lastSend = "threw"
    /\ ~loc.sendingLocation
    /\ loc.nSending = 0
    /\ AlertEnabled

\* A send is in progress after an earlier one completed.
C35_WitnessInProgress ==
    /\ loc.lastSend = "sent"
    /\ loc.sendingLocation
    /\ loc.nSending = 1
    /\ ~AlertEnabled

(***************************************************************************)
(* C36: the geolocation state machine                                      *)
(***************************************************************************)
\* The moves of state.status the state machine is said to have: idle to
\* loading, loading to success or error, back to loading from either, and
\* straight to error where geolocation is unsupported.
AllowedMove(s, t) ==
    \/ s = t
    \/ s = "idle" /\ t = "loading"
    \/ s = "loading" /\ t \in {"success", "error"}
    \/ s \in {"success", "error"} /\ t = "loading"
    \/ ~loc.supported /\ t = "error"

GeoMoves == AllowedMove(loc.status, loc'.status)

\* Without the geolocation interface the state is never loading.
UnsupportedNeverLoads == ~loc.supported => loc.status \in {"idle", "error"}

\* The success state carries coordinates and is the only state in which the
\* Send location button is enabled.
SuccessCarriesCoords ==
    /\ loc.status = "success" <=> loc.coords # NoCoords
    /\ SendLocationEnabled => loc.status = "success" /\ loc.coords \in Positions

\* C36: the geolocation state moves only idle -> loading -> success or
\* error, and back to loading on a new requestLocation; where geolocation is
\* unsupported requestLocation goes straight to error without entering
\* loading; the success state always carries coordinates and is the only
\* state in which the send-location action is enabled.
C36_GeoStateMachine ==
    /\ [][GeoMoves]_vars
    /\ [](UnsupportedNeverLoads /\ SuccessCarriesCoords)

\* C36 while requestLocation is never called with a request outstanding: the
\* moves are the listed ones.
GeoMovesWithoutOverlap == [][~loc'.overlapped => GeoMoves]_vars

\* C36 without its first part: what holds of useGeolocation with overlapping
\* requests too.
GeoStatesAreSound == UnsupportedNeverLoads /\ SuccessCarriesCoords

\* The Send location button of page.tsx has no verified gate: the position
\* has been handed to sendLocationToChain with no wallet connected.
StubSendsUnverified ==
    /\ loc.sent
    /\ loc.sentUnverified
    /\ ~isConnected
    /\ ~isVerified

====
